---- MODULE Spec2Model ----
(***************************************************************************)
(* The prioritized update queue of the reconciler (ReactUpdateQueue.js)    *)
(* and the pair of fibers (current / work-in-progress) that own the two    *)
(* queues sharing one persistent list of update records.                   *)
(*                                                                         *)
(* Records, queues and fibers are objects of a heap: a record is named by  *)
(* its index in `updates`, a queue by its index in `queues`, a fiber by    *)
(* its index in `fibers`; Null (0) is the null reference.                  *)
(***************************************************************************)
EXTENDS Integers, Sequences, FiniteSets, TLC

\* ------------------------------------------------------------------ bounds
\* Records the full protocol may allocate.
MaxUpdates == 3
\* Records the pass-by-pass replay specification may allocate.
MaxConvUpdates == 4
\* Expiration times of updates and renders range over 1..MaxTime.
MaxTime == 2

\* Records the pass specification may allocate, and its expiration times.
MaxPassUpdates == 3
MaxPassTime == 3
\* Renders the pass specification runs.
MaxPassRenders == 2
\* Records the re-entrant specification enqueues before the first render, and
\* records it may allocate in all.
MaxReentrantEnqueued == 2
MaxReentrantUpdates == 4
\* Records the throwing-payload specification enqueues before the first
\* render, and records it may allocate in all.
MaxThrowEnqueued == 3
MaxThrowUpdates == 4

\* -------------------------------------------------------------- constants
Null == 0
NoWork == 0

UpdateState == 0
ReplaceState == 1
ForceUpdate == 2
CaptureUpdate == 3

\* Side-effect tags of a fiber, kept as a set of names.
Callback == "Callback"
ShouldCapture == "ShouldCapture"
DidCapture == "DidCapture"

Times == 1..MaxTime
QueueIds == 1..3
FiberIds == 1..2

\* The letter a record appends or sets: the record's index picks it.
Letters == <<"A", "B", "C", "D", "E", "F", "G", "H">>

\* The state of a component: an object with the keys s (a string, kept as a
\* sequence of letters) and t (a letter).
InitialState == [s |-> <<>>, t |-> ""]

\* ------------------------------------------------------------------ state
VARIABLES
    updates,              \* heap of Update records, in allocation order
    queues,               \* heap of UpdateQueue objects (NoQueue: free slot)
    fibers,               \* the two fibers of the work unit
    root,                 \* the FiberRoot
    hasForceUpdate,       \* module-level flag of ReactUpdateQueue.js
    phase,                \* "idle": no render in progress; "render": the
                          \* work-in-progress fiber is created, not begun;
                          \* "begun": processUpdateQueue has run on it;
                          \* "hung": a call is in a loop it never leaves
    renderExpirationTime, \* expiration time of the render in progress
    hist                  \* history of what happened (observation only)

vars == <<updates, queues, fibers, root, hasForceUpdate, phase,
          renderExpirationTime, hist>>

\* A free slot of the queue heap.
NoQueue == [free |-> TRUE]

\* -------------------------------------------------------------- the store
\* The functions of the source read and write the heap; each is modelled as
\* an operator from a store S = [updates, queues, fibers, hasForceUpdate]
\* to the store after the call.

Store == [updates |-> updates, queues |-> queues, fibers |-> fibers,
          hasForceUpdate |-> hasForceUpdate]

\* The least queue slot no fiber refers to.
FreshQueue(S) ==
    CHOOSE q \in QueueIds :
        /\ \A f \in FiberIds : S.fibers[f].updateQueue # q
        /\ \A p \in QueueIds :
              p < q => \E f \in FiberIds : S.fibers[f].updateQueue = p

createUpdateQueue(baseState) ==
    [baseState           |-> baseState,
     firstUpdate         |-> Null,
     lastUpdate          |-> Null,
     firstCapturedUpdate |-> Null,
     lastCapturedUpdate  |-> Null,
     firstEffect         |-> Null,
     lastEffect          |-> Null,
     firstCapturedEffect |-> Null,
     lastCapturedEffect  |-> Null]

\* Mutant: the clone starts from an empty base state.
cloneUpdateQueue_FreshBase(currentQueue) ==
    [baseState           |-> [s |-> <<>>, t |-> ""],
     firstUpdate         |-> currentQueue.firstUpdate,
     lastUpdate          |-> currentQueue.lastUpdate,
     firstCapturedUpdate |-> Null,
     lastCapturedUpdate  |-> Null,
     firstEffect         |-> Null,
     lastEffect          |-> Null,
     firstCapturedEffect |-> Null,
     lastCapturedEffect  |-> Null]

cloneUpdateQueue(currentQueue) ==
    [baseState           |-> currentQueue.baseState,
     firstUpdate         |-> currentQueue.firstUpdate,
     lastUpdate          |-> currentQueue.lastUpdate,
     firstCapturedUpdate |-> Null,
     lastCapturedUpdate  |-> Null,
     firstEffect         |-> Null,
     lastEffect          |-> Null,
     firstCapturedEffect |-> Null,
     lastCapturedEffect  |-> Null]

\* What a payload function enqueues when it is called: nothing, or a new
\* update of expiration time `time` on the fiber `on` ("workInProgress" or
\* "current").
NoEnqueue == [on |-> "none", time |-> NoWork]

createUpdate(expirationTime) ==
    [expirationTime |-> expirationTime,
     tag            |-> UpdateState,
     payload        |-> [kind |-> "null", arg |-> "", obj |-> <<>>,
                         enqueues |-> NoEnqueue],
     callback       |-> "null",
     next           |-> Null,
     nextEffect     |-> Null]

\* Mutant: lastUpdate is moved to the new record before the old tail is linked.
appendUpdateToQueue_TailMovedFirst(S, queue, update) ==
    IF S.queues[queue].lastUpdate = Null
    THEN [S EXCEPT !.queues[queue].firstUpdate = update,
                   !.queues[queue].lastUpdate = update]
    ELSE [S EXCEPT !.updates[update].next = update,
                   !.queues[queue].lastUpdate = update]

\* appendUpdateToQueue(queue, update): queue and update are heap indices.
appendUpdateToQueue(S, queue, update) ==
    IF S.queues[queue].lastUpdate = Null
    THEN [S EXCEPT !.queues[queue].firstUpdate = update,
                   !.queues[queue].lastUpdate = update]
    ELSE [S EXCEPT !.updates[S.queues[queue].lastUpdate].next = update,
                   !.queues[queue].lastUpdate = update]

\* The store after fiber.updateQueue = <a new queue object holding q>.
SetNewQueue(S, fiber, q) ==
    LET id == FreshQueue(S)
    IN [S EXCEPT !.queues[id] = q, !.fibers[fiber].updateQueue = id]

\* Mutant: no second queue object is made: the fiber without a queue is given
\* the queue object of the other, or both the same new one.
enqueueUpdateQueues_OneObject(S, fiber) ==
    LET alternate == S.fibers[fiber].alternate
        queue1 == S.fibers[fiber].updateQueue
    IN IF alternate = Null
       THEN IF queue1 = Null
            THEN SetNewQueue(S, fiber,
                             createUpdateQueue(S.fibers[fiber].memoizedState))
            ELSE S
       ELSE LET queue2 == S.fibers[alternate].updateQueue
            IN IF queue1 = Null
               THEN IF queue2 = Null
                    THEN LET S1 == SetNewQueue(S, fiber,
                                     createUpdateQueue(
                                         S.fibers[fiber].memoizedState))
                         IN [S1 EXCEPT !.fibers[alternate].updateQueue =
                                          S1.fibers[fiber].updateQueue]
                    ELSE [S EXCEPT !.fibers[fiber].updateQueue = queue2]
               ELSE IF queue2 = Null
                    THEN [S EXCEPT !.fibers[alternate].updateQueue = queue1]
                    ELSE S

\* enqueueUpdate, lines 294-330: the queues of the fiber and its alternate
\* are created or cloned lazily.
enqueueUpdateQueues(S, fiber) ==
    LET alternate == S.fibers[fiber].alternate
        queue1 == S.fibers[fiber].updateQueue
    IN IF alternate = Null
       THEN IF queue1 = Null
            THEN SetNewQueue(S, fiber,
                             createUpdateQueue(S.fibers[fiber].memoizedState))
            ELSE S
       ELSE LET queue2 == S.fibers[alternate].updateQueue
            IN IF queue1 = Null
               THEN IF queue2 = Null
                    THEN SetNewQueue(
                           SetNewQueue(S, fiber,
                             createUpdateQueue(S.fibers[fiber].memoizedState)),
                           alternate,
                           createUpdateQueue(S.fibers[alternate].memoizedState))
                    ELSE SetNewQueue(S, fiber,
                                     cloneUpdateQueue(S.queues[queue2]))
               ELSE IF queue2 = Null
                    THEN SetNewQueue(S, alternate,
                                     cloneUpdateQueue(S.queues[queue1]))
                    ELSE S

\* Mutant: the update is appended to the queue of the fiber alone.
enqueueUpdateAppend_OneQueue(S, fiber, update) ==
    appendUpdateToQueue(S, S.fibers[fiber].updateQueue, update)

\* Mutant: both queues are appended to only when both are empty.
enqueueUpdateAppend_BothEmpty(S, fiber, update) ==
    LET alternate == S.fibers[fiber].alternate
        queue1 == S.fibers[fiber].updateQueue
        queue2 == IF alternate = Null THEN Null
                  ELSE S.fibers[alternate].updateQueue
    IN IF queue2 = Null \/ queue1 = queue2
       THEN appendUpdateToQueue(S, queue1, update)
       ELSE IF S.queues[queue1].lastUpdate = Null
                 /\ S.queues[queue2].lastUpdate = Null
            THEN appendUpdateToQueue(
                    appendUpdateToQueue(S, queue1, update), queue2, update)
            ELSE [appendUpdateToQueue(S, queue1, update)
                    EXCEPT !.queues[queue2].lastUpdate = update]

\* Mutant: lastUpdate of the second queue is not moved to the new record.
enqueueUpdateAppend_TailNotMoved(S, fiber, update) ==
    LET alternate == S.fibers[fiber].alternate
        queue1 == S.fibers[fiber].updateQueue
        queue2 == IF alternate = Null THEN Null
                  ELSE S.fibers[alternate].updateQueue
    IN IF queue2 = Null \/ queue1 = queue2
       THEN appendUpdateToQueue(S, queue1, update)
       ELSE IF S.queues[queue1].lastUpdate = Null
                 \/ S.queues[queue2].lastUpdate = Null
            THEN appendUpdateToQueue(
                    appendUpdateToQueue(S, queue1, update), queue2, update)
            ELSE appendUpdateToQueue(S, queue1, update)

\* enqueueUpdate, lines 332-351: the append to one queue or to both.
enqueueUpdateAppend(S, fiber, update) ==
    LET alternate == S.fibers[fiber].alternate
        queue1 == S.fibers[fiber].updateQueue
        queue2 == IF alternate = Null THEN Null
                  ELSE S.fibers[alternate].updateQueue
    IN IF queue2 = Null \/ queue1 = queue2
       THEN appendUpdateToQueue(S, queue1, update)
       ELSE IF S.queues[queue1].lastUpdate = Null
                 \/ S.queues[queue2].lastUpdate = Null
            THEN appendUpdateToQueue(
                    appendUpdateToQueue(S, queue1, update), queue2, update)
            ELSE [appendUpdateToQueue(S, queue1, update)
                    EXCEPT !.queues[queue2].lastUpdate = update]

enqueueUpdate(S, fiber, update) ==
    CHOOSE T \in {enqueueUpdateAppend(S1, fiber, update) :
                    S1 \in {enqueueUpdateQueues(S, fiber)}} : TRUE

\* Mutant: the queue is never cloned.
ensureWorkInProgressQueueIsAClone_NoClone(S, workInProgress, queue) ==
    [S |-> S, queue |-> queue]

\* Returns the store after the call and the queue the call returns.
ensureWorkInProgressQueueIsAClone(S, workInProgress, queue) ==
    LET current == S.fibers[workInProgress].alternate
    IN IF current # Null /\ queue = S.fibers[current].updateQueue
       THEN LET S1 == SetNewQueue(S, workInProgress,
                                  cloneUpdateQueue(S.queues[queue]))
            IN [S |-> S1, queue |-> S1.fibers[workInProgress].updateQueue]
       ELSE [S |-> S, queue |-> queue]

\* Mutant: the update is appended to the normal list of the clone.
enqueueCapturedUpdate_NormalList(S, workInProgress, update) ==
    LET R == IF S.fibers[workInProgress].updateQueue = Null
             THEN LET S0 == SetNewQueue(S, workInProgress,
                     createUpdateQueue(S.fibers[workInProgress].memoizedState))
                  IN [S |-> S0, queue |-> S0.fibers[workInProgress].updateQueue]
             ELSE ensureWorkInProgressQueueIsAClone(
                     S, workInProgress, S.fibers[workInProgress].updateQueue)
    IN appendUpdateToQueue(R.S, R.queue, update)

enqueueCapturedUpdate(S, workInProgress, update) ==
    LET R == IF S.fibers[workInProgress].updateQueue = Null
             THEN LET S0 == SetNewQueue(S, workInProgress,
                     createUpdateQueue(S.fibers[workInProgress].memoizedState))
                  IN [S |-> S0, queue |-> S0.fibers[workInProgress].updateQueue]
             ELSE ensureWorkInProgressQueueIsAClone(
                     S, workInProgress, S.fibers[workInProgress].updateQueue)
        S1 == R.S
        workInProgressQueue == R.queue
    IN IF S1.queues[workInProgressQueue].lastCapturedUpdate = Null
       THEN [S1 EXCEPT
               !.queues[workInProgressQueue].firstCapturedUpdate = update,
               !.queues[workInProgressQueue].lastCapturedUpdate = update]
       ELSE [S1 EXCEPT
               !.updates[S1.queues[workInProgressQueue].lastCapturedUpdate].next
                   = update,
               !.queues[workInProgressQueue].lastCapturedUpdate = update]

\* ------------------------------------------------------ getStateFromUpdate
\* A payload is null, a partial-state object (obj), or an updater function.
\* A partial state is null (isNull) or an object (obj).
IsFunction(payload) == payload.kind = "function"

\* payload.call(instance, prevState, nextProps): the updater functions of the
\* model append the letter arg to the key s, or return null (arg "").
CallPayload(payload, prevState, nextProps) ==
    IF payload.arg = ""
    THEN [isNull |-> TRUE, obj |-> <<>>]
    ELSE [isNull |-> FALSE, obj |-> [s |-> Append(prevState.s, payload.arg)]]

\* Mutant: the record the payload function creates is not linked into a queue.
CallPayloadStore_Detached(S, workInProgress, payload) ==
    IF IsFunction(payload) /\ payload.enqueues.on # "none"
    THEN [S EXCEPT !.updates =
            Append(@, [createUpdate(payload.enqueues.time) EXCEPT
                         !.payload = [kind |-> "function",
                                      arg |-> Letters[Len(S.updates) + 1],
                                      obj |-> <<>>, enqueues |-> NoEnqueue]])]
    ELSE S

\* payload.call(instance, prevState, nextProps), the store after the call: a
\* payload function may call setState on its component, which is
\* enqueueUpdate(fiber, update) with a new update on one of the two fibers.
CallPayloadStore(S, workInProgress, payload) ==
    IF IsFunction(payload) /\ payload.enqueues.on # "none"
    THEN LET id == Len(S.updates) + 1
             fiber == IF payload.enqueues.on = "workInProgress"
                      THEN workInProgress
                      ELSE S.fibers[workInProgress].alternate
             update == [createUpdate(payload.enqueues.time) EXCEPT
                          !.payload = [kind |-> "function",
                                       arg |-> Letters[id], obj |-> <<>>,
                                       enqueues |-> NoEnqueue]]
         IN enqueueUpdate([S EXCEPT !.updates = Append(@, update)], fiber, id)
    ELSE S

\* The updater function of the model that throws when it is called.
Throw == "throw"

PayloadThrows(payload) == IsFunction(payload) /\ payload.arg = Throw

\* Lines 440-446 and 483-487: the payload called, or the payload itself.
PartialState(payload, prevState, nextProps) ==
    IF IsFunction(payload)
    THEN CallPayload(payload, prevState, nextProps)
    ELSE [isNull |-> payload.kind = "null", obj |-> payload.obj]

\* partialState === null || partialState === undefined
IsNullPartial(partialState) == partialState.isNull

\* Mutant: a null partial state leaves an empty state.
NullPartialState_Empty(prevState) == [s |-> <<>>, t |-> ""]

\* Lines 491-495: a null partial state is treated as a no-op.
NullPartialState(prevState) == prevState

\* Mutant: the keys of the previous state win.
ObjectAssign_PrevWins(prevState, partialState) == prevState @@ partialState

\* Object.assign({}, prevState, partialState)
ObjectAssign(prevState, partialState) == partialState @@ prevState

\* Lines 501-505: case ForceUpdate.
ForceUpdateState(S, prevState) ==
    [S |-> [S EXCEPT !.hasForceUpdate = TRUE], state |-> prevState]

\* Returns the store after the call (effectTag, hasForceUpdate) and the state.
getStateFromUpdate(S, workInProgress, queue, update, prevState, nextProps, instance) ==
    LET u == S.updates[update]
        payload == u.payload
        partialState == PartialState(payload, prevState, nextProps)
        merged(S1) ==
            IF IsNullPartial(partialState)
            THEN [S |-> S1, state |-> NullPartialState(prevState)]
            ELSE [S |-> S1, state |-> ObjectAssign(prevState, partialState.obj)]
        called(S1) == CallPayloadStore(S1, workInProgress, payload)
    IN CASE u.tag = ReplaceState ->
              [S |-> called(S), state |-> partialState.obj]
         [] u.tag = CaptureUpdate ->
              merged(called(
                 [S EXCEPT !.fibers[workInProgress].effectTag =
                              (@ \ {ShouldCapture}) \cup {DidCapture}]))
         [] u.tag = UpdateState -> merged(called(S))
         [] u.tag = ForceUpdate -> ForceUpdateState(S, prevState)
         [] OTHER -> [S |-> S, state |-> prevState]

\* Lines 450 and 483: payload.call throws, and getStateFromUpdate, which has
\* no try statement, throws with it.
getStateFromUpdateThrows(S, update) ==
    /\ S.updates[update].tag \in {ReplaceState, CaptureUpdate, UpdateState}
    /\ PayloadThrows(S.updates[update].payload)

\* The store when it throws: case CaptureUpdate has set the effect tag of
\* the fiber (lines 461-465) before the payload is called.
getStateFromUpdateThrown(S, workInProgress, update) ==
    IF S.updates[update].tag = CaptureUpdate
    THEN [S EXCEPT !.fibers[workInProgress].effectTag =
                      (@ \ {ShouldCapture}) \cup {DidCapture}]
    ELSE S

\* ------------------------------------------------------ processUpdateQueue
\* Mutant: an update of the render's own expiration time is skipped too.
InsufficientPriority_OrEqual(updateExpirationTime, renderExpTime) ==
    updateExpirationTime <= renderExpTime

\* The test of lines 537 and 603: the update has insufficient priority.
InsufficientPriority(updateExpirationTime, renderExpTime) ==
    updateExpirationTime < renderExpTime

\* Mutant: the remaining expiration time is that of the last skipped update.
RemainingExpirationTime_LastSkipped(newExpirationTime, updateExpirationTime) ==
    updateExpirationTime

\* Lines 558-560 and 617-619: the remaining expiration time.
RemainingExpirationTime(newExpirationTime, updateExpirationTime) ==
    IF newExpirationTime < updateExpirationTime
    THEN updateExpirationTime
    ELSE newExpirationTime

\* Mutant: the new first update is the last update skipped.
NewFirstUpdate_LastSkipped(newFirstUpdate, update) == update

\* Lines 540-544 and 605-609: the first update skipped is the new first
\* update of its list.
NewFirstUpdate(newFirstUpdate, update) ==
    IF newFirstUpdate = Null THEN update ELSE newFirstUpdate

\* Mutant: the base state moves at every skipped update.
FirstSkippedBaseState_EverySkip(isFirstSkipped, resultState, newBaseState) ==
    resultState

\* Lines 540-551 and 605-614: the result so far is the new base state at the
\* first update skipped.
FirstSkippedBaseState(isFirstSkipped, resultState, newBaseState) ==
    IF isFirstSkipped THEN resultState ELSE newBaseState

\* Lines 573-589: an applied update with a callback joins the effect list.
appendEffect(S, workInProgress, queue, update) ==
    IF S.updates[update].callback = "null"
    THEN S
    ELSE LET S1 == [S EXCEPT !.fibers[workInProgress].effectTag =
                                 @ \cup {Callback},
                             !.updates[update].nextEffect = Null]
         IN IF S1.queues[queue].lastEffect = Null
            THEN [S1 EXCEPT !.queues[queue].firstEffect = update,
                            !.queues[queue].lastEffect = update]
            ELSE [S1 EXCEPT
                    !.updates[S1.queues[queue].lastEffect].nextEffect = update,
                    !.queues[queue].lastEffect = update]

\* Lines 631-642: the same for the captured effect list.
appendCapturedEffect(S, workInProgress, queue, update) ==
    IF S.updates[update].callback = "null"
    THEN S
    ELSE LET S1 == [S EXCEPT !.fibers[workInProgress].effectTag =
                                 @ \cup {Callback},
                             !.updates[update].nextEffect = Null]
         IN IF S1.queues[queue].lastCapturedEffect = Null
            THEN [S1 EXCEPT !.queues[queue].firstCapturedEffect = update,
                            !.queues[queue].lastCapturedEffect = update]
            ELSE [S1 EXCEPT
                    !.updates[S1.queues[queue].lastCapturedEffect].nextEffect
                        = update,
                    !.queues[queue].lastCapturedEffect = update]

\* The locals of processUpdateQueue between two iterations of its loops:
\*   S, update (the cursor), resultState, newBaseState, newFirstUpdate,
\*   newFirstCapturedUpdate, newExpirationTime,
\* with trace (the records visited, in order, each applied or skipped) and
\* fuel / diverged: a walk longer than the number of allocated records is a
\* walk round a cycle, which the loop of the source never leaves.

\* Lines 535-594: the loop over the list of updates.
RECURSIVE processUpdates(_, _, _, _)
processUpdates(L, workInProgress, queue, renderExpTime) ==
    IF L.update = Null THEN L
    ELSE IF L.fuel = 0 THEN [L EXCEPT !.diverged = TRUE]
    ELSE
      LET update == L.update
          updateExpirationTime == L.S.updates[update].expirationTime
      IN IF InsufficientPriority(updateExpirationTime, renderExpTime)
         THEN processUpdates(
                [L EXCEPT
                   !.newFirstUpdate = NewFirstUpdate(@, update),
                   !.newBaseState = FirstSkippedBaseState(
                                        L.newFirstUpdate = Null,
                                        L.resultState, @),
                   !.newExpirationTime =
                       RemainingExpirationTime(@, updateExpirationTime),
                   !.trace = Append(@, [update |-> update, captured |-> FALSE,
                                        applied |-> FALSE]),
                   !.update = L.S.updates[update].next,
                   !.fuel = @ - 1],
                workInProgress, queue, renderExpTime)
         ELSE IF getStateFromUpdateThrows(L.S, update)
         THEN [L EXCEPT
                 !.S = getStateFromUpdateThrown(L.S, workInProgress, update),
                 !.threw = TRUE]
         ELSE LET R == getStateFromUpdate(L.S, workInProgress, queue, update,
                                          L.resultState, "props", "instance")
                  S2 == appendEffect(R.S, workInProgress, queue, update)
              IN processUpdates(
                   [L EXCEPT
                      !.S = S2,
                      !.resultState = R.state,
                      !.trace = Append(@, [update |-> update,
                                           captured |-> FALSE,
                                           applied |-> TRUE]),
                      !.update = S2.updates[update].next,
                      !.fuel = @ - 1 + Len(S2.updates) - Len(L.S.updates)],
                   workInProgress, queue, renderExpTime)

\* Lines 601-645: the loop over the list of captured updates.
RECURSIVE processCapturedUpdates(_, _, _, _)
processCapturedUpdates(L, workInProgress, queue, renderExpTime) ==
    IF L.update = Null THEN L
    ELSE IF L.fuel = 0 THEN [L EXCEPT !.diverged = TRUE]
    ELSE
      LET update == L.update
          updateExpirationTime == L.S.updates[update].expirationTime
      IN IF InsufficientPriority(updateExpirationTime, renderExpTime)
         THEN processCapturedUpdates(
                [L EXCEPT
                   !.newFirstCapturedUpdate = NewFirstUpdate(@, update),
                   !.newBaseState = FirstSkippedBaseState(
                                        L.newFirstCapturedUpdate = Null
                                          /\ L.newFirstUpdate = Null,
                                        L.resultState, @),
                   !.newExpirationTime =
                       RemainingExpirationTime(@, updateExpirationTime),
                   !.trace = Append(@, [update |-> update, captured |-> TRUE,
                                        applied |-> FALSE]),
                   !.update = L.S.updates[update].next,
                   !.fuel = @ - 1],
                workInProgress, queue, renderExpTime)
         ELSE IF getStateFromUpdateThrows(L.S, update)
         THEN [L EXCEPT
                 !.S = getStateFromUpdateThrown(L.S, workInProgress, update),
                 !.threw = TRUE]
         ELSE LET R == getStateFromUpdate(L.S, workInProgress, queue, update,
                                          L.resultState, "props", "instance")
                  S2 == appendCapturedEffect(R.S, workInProgress, queue, update)
              IN processCapturedUpdates(
                   [L EXCEPT
                      !.S = S2,
                      !.resultState = R.state,
                      !.trace = Append(@, [update |-> update,
                                           captured |-> TRUE,
                                           applied |-> TRUE]),
                      !.update = S2.updates[update].next,
                      !.fuel = @ - 1 + Len(S2.updates) - Len(L.S.updates)],
                   workInProgress, queue, renderExpTime)

\* Mutant: the base state is the result state also when a record is skipped.
processUpdateQueueFinish_BaseIsResult(L, workInProgress, queue) ==
    LET q0 == L.S.queues[queue]
        q1 == IF L.newFirstUpdate = Null
              THEN [q0 EXCEPT !.lastUpdate = Null] ELSE q0
        q2 == IF L.newFirstCapturedUpdate = Null
              THEN [q1 EXCEPT !.lastCapturedUpdate = Null] ELSE q1
        q3 == [q2 EXCEPT !.baseState = L.resultState,
                         !.firstUpdate = L.newFirstUpdate,
                         !.firstCapturedUpdate = L.newFirstCapturedUpdate]
    IN [L.S EXCEPT
          !.queues[queue] = q3,
          !.fibers[workInProgress].effectTag =
              IF L.newFirstCapturedUpdate = Null THEN @ ELSE @ \cup {Callback},
          !.fibers[workInProgress].expirationTime = L.newExpirationTime,
          !.fibers[workInProgress].memoizedState = L.resultState]

\* Mutant: the tails are not reset when the heads become null.
processUpdateQueueFinish_TailsKept(L, workInProgress, queue) ==
    LET q0 == L.S.queues[queue]
        newBaseState == IF L.newFirstUpdate = Null
                           /\ L.newFirstCapturedUpdate = Null
                        THEN L.resultState ELSE L.newBaseState
        q3 == [q0 EXCEPT !.baseState = newBaseState,
                         !.firstUpdate = L.newFirstUpdate,
                         !.firstCapturedUpdate = L.newFirstCapturedUpdate]
    IN [L.S EXCEPT
          !.queues[queue] = q3,
          !.fibers[workInProgress].effectTag =
              IF L.newFirstCapturedUpdate = Null THEN @ ELSE @ \cup {Callback},
          !.fibers[workInProgress].expirationTime = L.newExpirationTime,
          !.fibers[workInProgress].memoizedState = L.resultState]

\* Lines 647-691: the queue and the fiber after the two loops.
processUpdateQueueFinish(L, workInProgress, queue) ==
    LET q0 == L.S.queues[queue]
        q1 == IF L.newFirstUpdate = Null
              THEN [q0 EXCEPT !.lastUpdate = Null] ELSE q0
        q2 == IF L.newFirstCapturedUpdate = Null
              THEN [q1 EXCEPT !.lastCapturedUpdate = Null] ELSE q1
        newBaseState == IF L.newFirstUpdate = Null
                           /\ L.newFirstCapturedUpdate = Null
                        THEN L.resultState ELSE L.newBaseState
        q3 == [q2 EXCEPT !.baseState = newBaseState,
                         !.firstUpdate = L.newFirstUpdate,
                         !.firstCapturedUpdate = L.newFirstCapturedUpdate]
    IN [L.S EXCEPT
          !.queues[queue] = q3,
          !.fibers[workInProgress].effectTag =
              IF L.newFirstCapturedUpdate = Null THEN @ ELSE @ \cup {Callback},
          !.fibers[workInProgress].expirationTime = L.newExpirationTime,
          !.fibers[workInProgress].memoizedState = L.resultState]

\* Mutant: the flag of an earlier pass is kept.
resetHasForceUpdate_Kept(S) == S

\* Mutant: the results of the loops are written also when a payload threw.
processUpdateQueueEnd_FinishAfterThrow(L, workInProgress, queue) ==
    processUpdateQueueFinish(L, workInProgress, queue)

\* processUpdateQueue has no try statement: when a payload throws, the call
\* ends there and lines 647-691 do not run.
processUpdateQueueEnd(L, workInProgress, queue) ==
    IF L.threw THEN L.S
    ELSE processUpdateQueueFinish(L, workInProgress, queue)

\* Line 517: hasForceUpdate = false.
resetHasForceUpdate(S) == [S EXCEPT !.hasForceUpdate = FALSE]

\* Mutant: the list of captured updates is walked before the list of updates.
processUpdateQueue_CapturedFirst(S, workInProgress, queue0, renderExpTime) ==
    LET E == ensureWorkInProgressQueueIsAClone(
                 resetHasForceUpdate(S), workInProgress, queue0)
        queue == E.queue
        L0 == [S |-> E.S,
               update |-> E.S.queues[queue].firstCapturedUpdate,
               resultState |-> E.S.queues[queue].baseState,
               newBaseState |-> E.S.queues[queue].baseState,
               newFirstUpdate |-> Null,
               newFirstCapturedUpdate |-> Null,
               newExpirationTime |-> NoWork,
               trace |-> <<>>,
               fuel |-> Len(S.updates) + 1,
               diverged |-> FALSE,
               threw |-> FALSE]
        L1 == processCapturedUpdates(L0, workInProgress, queue, renderExpTime)
        L2 == IF L1.diverged \/ L1.threw THEN L1
              ELSE processUpdates(
                     [L1 EXCEPT
                        !.update = L1.S.queues[queue].firstUpdate,
                        !.fuel = Len(S.updates) + 1],
                     workInProgress, queue, renderExpTime)
    IN IF L2.diverged
       THEN [S |-> L2.S, trace |-> L2.trace, diverged |-> TRUE,
             threw |-> FALSE, queue |-> queue]
       ELSE [S |-> processUpdateQueueEnd(L2, workInProgress, queue),
             trace |-> L2.trace, diverged |-> FALSE, threw |-> L2.threw,
             queue |-> queue]

\* processUpdateQueue(workInProgress, queue, props, instance,
\* renderExpirationTime): the store after the call, the trace of the pass,
\* and whether the call never returns.
processUpdateQueue(S, workInProgress, queue0, renderExpTime) ==
    LET E == ensureWorkInProgressQueueIsAClone(
                 resetHasForceUpdate(S), workInProgress, queue0)
        queue == E.queue
        L0 == [S |-> E.S,
               update |-> E.S.queues[queue].firstUpdate,
               resultState |-> E.S.queues[queue].baseState,
               newBaseState |-> E.S.queues[queue].baseState,
               newFirstUpdate |-> Null,
               newFirstCapturedUpdate |-> Null,
               newExpirationTime |-> NoWork,
               trace |-> <<>>,
               fuel |-> Len(S.updates) + 1,
               diverged |-> FALSE,
               threw |-> FALSE]
        L1 == processUpdates(L0, workInProgress, queue, renderExpTime)
        L2 == IF L1.diverged \/ L1.threw THEN L1
              ELSE processCapturedUpdates(
                     [L1 EXCEPT
                        !.update = L1.S.queues[queue].firstCapturedUpdate,
                        !.fuel = Len(S.updates) + 1],
                     workInProgress, queue, renderExpTime)
    IN IF L2.diverged
       THEN [S |-> L2.S, trace |-> L2.trace, diverged |-> TRUE,
             threw |-> FALSE, queue |-> queue]
       ELSE [S |-> processUpdateQueueEnd(L2, workInProgress, queue),
             trace |-> L2.trace, diverged |-> FALSE, threw |-> L2.threw,
             queue |-> queue]

\* ------------------------------------------------------- commitUpdateQueue
\* Mutant: the callback is called whatever it is.
IsCallable_Any(callback) == TRUE

\* callCallback: the invariant of lines 699-704 throws unless the callback
\* is a function.
IsCallable(callback) == callback = "function"

\* Mutant: the callback is not cleared from the record before it is called.
RECURSIVE commitUpdateEffects_CallbackKept(_, _, _, _, _, _)
commitUpdateEffects_CallbackKept(S, effect, instance, called, contexts, fuel) ==
    IF effect = Null
    THEN [S |-> S, called |-> called, contexts |-> contexts,
          end |-> "returned"]
    ELSE IF fuel = 0
    THEN [S |-> S, called |-> called, contexts |-> contexts,
          end |-> "diverged"]
    ELSE LET callback == S.updates[effect].callback
         IN IF callback # "null"
            THEN IF IsCallable(callback)
                 THEN commitUpdateEffects_CallbackKept(
                        S, S.updates[effect].nextEffect, instance,
                        Append(called, effect), Append(contexts, instance),
                        fuel - 1)
                 ELSE [S |-> S, called |-> called, contexts |-> contexts,
                       end |-> "threw"]
            ELSE commitUpdateEffects_CallbackKept(
                   S, S.updates[effect].nextEffect, instance, called,
                   contexts, fuel - 1)

\* commitUpdateEffects(effect, instance): the store after the call, the
\* records whose callback was called, in order, the context each was called
\* with, and how the call ended: "returned", "threw" (callCallback's
\* invariant) or "diverged".
RECURSIVE commitUpdateEffects(_, _, _, _, _, _)
commitUpdateEffects(S, effect, instance, called, contexts, fuel) ==
    IF effect = Null
    THEN [S |-> S, called |-> called, contexts |-> contexts,
          end |-> "returned"]
    ELSE IF fuel = 0
    THEN [S |-> S, called |-> called, contexts |-> contexts,
          end |-> "diverged"]
    ELSE LET callback == S.updates[effect].callback
         IN IF callback # "null"
            THEN LET S1 == [S EXCEPT !.updates[effect].callback = "null"]
                 IN IF IsCallable(callback)
                    THEN commitUpdateEffects(S1, S1.updates[effect].nextEffect,
                                             instance, Append(called, effect),
                                             Append(contexts, instance),
                                             fuel - 1)
                    ELSE [S |-> S1, called |-> called, contexts |-> contexts,
                          end |-> "threw"]
            ELSE commitUpdateEffects(S, S.updates[effect].nextEffect,
                                     instance, called, contexts, fuel - 1)

\* Lines 730-738: the captured list joins the end of the normal list.
joinCapturedUpdates(S, finishedQueue) ==
    LET q == S.queues[finishedQueue]
    IN IF q.firstCapturedUpdate # Null
       THEN LET S1 == IF q.lastUpdate # Null
                      THEN [S EXCEPT
                              !.updates[q.lastUpdate].next =
                                  q.firstCapturedUpdate,
                              !.queues[finishedQueue].lastUpdate =
                                  q.lastCapturedUpdate]
                      ELSE S
            IN [S1 EXCEPT !.queues[finishedQueue].firstCapturedUpdate = Null,
                          !.queues[finishedQueue].lastCapturedUpdate = Null]
       ELSE S

\* commitUpdateQueue(finishedWork, finishedQueue, instance,
\* renderExpirationTime): the store when the call ends, the callbacks called
\* and their contexts, and how it ended.
commitUpdateQueue(S, finishedWork, finishedQueue, instance) ==
    LET S1 == joinCapturedUpdates(S, finishedQueue)
        fuel == Len(S.updates) + 1
        E1 == commitUpdateEffects(S1, S1.queues[finishedQueue].firstEffect,
                                  instance, <<>>, <<>>, fuel)
        S2 == [E1.S EXCEPT !.queues[finishedQueue].firstEffect = Null,
                           !.queues[finishedQueue].lastEffect = Null]
        E2 == commitUpdateEffects(S2,
                                  S2.queues[finishedQueue].firstCapturedEffect,
                                  instance, E1.called, E1.contexts, fuel)
        S3 == [E2.S EXCEPT !.queues[finishedQueue].firstCapturedEffect = Null,
                           !.queues[finishedQueue].lastCapturedEffect = Null]
    IN IF E1.end # "returned" THEN E1
       ELSE IF E2.end # "returned" THEN E2
       ELSE [S |-> S3, called |-> E2.called, contexts |-> E2.contexts,
             end |-> "returned"]

\* -------------------------------------------------------- fibers and root
\* A fiber, with the fields the update queue reads and writes.
createFiber ==
    [updateQueue    |-> Null,
     memoizedState  |-> InitialState,
     expirationTime |-> NoWork,
     effectTag      |-> {},
     alternate      |-> Null,
     stateNode      |-> Null]

\* createHostRootFiber(isConcurrent): the fiber of a root, with the fields the
\* update queue reads and writes.
createHostRootFiber(isConcurrent) == createFiber

\* The root object that createFiberRoot makes, as fibers refer to it.
RootId == 1

\* Mutant: the stateNode of the root's fiber is not set.
createFiberRoot_NoStateNode(containerInfo, isConcurrent, hydrate, enableSchedulerTracing) ==
    LET base ==
          [current                     |-> 1,
           containerInfo               |-> containerInfo,
           pendingChildren             |-> Null,
           earliestPendingTime         |-> NoWork,
           latestPendingTime           |-> NoWork,
           earliestSuspendedTime       |-> NoWork,
           latestSuspendedTime         |-> NoWork,
           latestPingedTime            |-> NoWork,
           pingCache                   |-> Null,
           didError                    |-> FALSE,
           pendingCommitExpirationTime |-> NoWork,
           finishedWork                |-> Null,
           timeoutHandle               |-> "noTimeout",
           context                     |-> Null,
           pendingContext              |-> Null,
           hydrate                     |-> hydrate,
           nextExpirationTimeToWorkOn  |-> NoWork,
           expirationTime              |-> NoWork,
           firstBatch                  |-> Null,
           nextScheduledRoot           |-> Null]
        uninitializedFiber == createHostRootFiber(isConcurrent)
    IN [root  |-> IF enableSchedulerTracing
                  THEN base @@ [interactionThreadID   |-> "threadID",
                                memoizedInteractions  |-> {},
                                pendingInteractionMap |-> <<>>]
                  ELSE base,
        fiber |-> uninitializedFiber]

\* createFiberRoot(containerInfo, isConcurrent, hydrate), with the feature
\* flag enableSchedulerTracing it reads: the root it returns and the fiber it
\* makes for it, fiber 1, which is root.current and whose stateNode is set to
\* the root.
createFiberRoot(containerInfo, isConcurrent, hydrate, enableSchedulerTracing) ==
    LET base ==
          [current                     |-> 1,
           containerInfo               |-> containerInfo,
           pendingChildren             |-> Null,
           earliestPendingTime         |-> NoWork,
           latestPendingTime           |-> NoWork,
           earliestSuspendedTime       |-> NoWork,
           latestSuspendedTime         |-> NoWork,
           latestPingedTime            |-> NoWork,
           pingCache                   |-> Null,
           didError                    |-> FALSE,
           pendingCommitExpirationTime |-> NoWork,
           finishedWork                |-> Null,
           timeoutHandle               |-> "noTimeout",
           context                     |-> Null,
           pendingContext              |-> Null,
           hydrate                     |-> hydrate,
           nextExpirationTimeToWorkOn  |-> NoWork,
           expirationTime              |-> NoWork,
           firstBatch                  |-> Null,
           nextScheduledRoot           |-> Null]
        uninitializedFiber == createHostRootFiber(isConcurrent)
    IN [root  |-> IF enableSchedulerTracing
                  THEN base @@ [interactionThreadID   |-> "threadID",
                                memoizedInteractions  |-> {},
                                pendingInteractionMap |-> <<>>]
                  ELSE base,
        fiber |-> [uninitializedFiber EXCEPT !.stateNode = RootId]]

\* The work-in-progress fiber: the alternate of the root's current fiber.
CurrentFiber == root.current
WorkInProgress == fibers[root.current].alternate

\* createWorkInProgress(current): the alternate is created on the first
\* render and reused afterwards; it takes the state and the queue of current.
createWorkInProgress(S, current) ==
    LET workInProgress == IF S.fibers[current].alternate = Null
                          THEN CHOOSE f \in FiberIds : f # current
                          ELSE S.fibers[current].alternate
        c == S.fibers[current]
    IN [S EXCEPT
          !.fibers[current].alternate = workInProgress,
          !.fibers[workInProgress] =
              [updateQueue    |-> c.updateQueue,
               memoizedState  |-> c.memoizedState,
               expirationTime |-> c.expirationTime,
               effectTag      |-> {},
               alternate      |-> current,
               stateNode      |-> c.stateNode]]

\* Queue objects no fiber refers to are gone.
Collect(S) ==
    [S EXCEPT !.queues =
        [q \in QueueIds |->
            IF \E f \in FiberIds : S.fibers[f].updateQueue = q
            THEN S.queues[q] ELSE NoQueue]]

\* --------------------------------------------------------- list operators
\* The records reached from `first` by following `next`, in order, cut
\* after `fuel` records.
RECURSIVE ListFrom(_, _, _)
ListFrom(U, first, fuel) ==
    IF first = Null \/ fuel = 0 THEN <<>>
    ELSE <<first>> \o ListFrom(U, U[first].next, fuel - 1)

RECURSIVE EffectListFrom(_, _, _)
EffectListFrom(U, first, fuel) ==
    IF first = Null \/ fuel = 0 THEN <<>>
    ELSE <<first>> \o EffectListFrom(U, U[first].nextEffect, fuel - 1)

\* The list of updates of a queue (Null: no queue).
UpdateList(q) ==
    IF q = Null THEN <<>>
    ELSE ListFrom(updates, queues[q].firstUpdate, Len(updates) + 1)

CapturedList(q) ==
    IF q = Null THEN <<>>
    ELSE ListFrom(updates, queues[q].firstCapturedUpdate, Len(updates) + 1)

Range(seq) == {seq[i] : i \in 1..Len(seq)}

NoDuplicates(seq) == \A i, j \in 1..Len(seq) : seq[i] = seq[j] => i = j

LiveQueues == {fibers[f].updateQueue : f \in FiberIds} \ {Null}

\* ------------------------------------------------------------------ inputs
\* The updates the callers build (setState with an updater function or a
\* partial state, replaceState, forceUpdate, an error update), each from
\* createUpdate(expirationTime).
UpdateKinds == {"append", "set", "replace", "null", "nullfn", "force"}
\* A callback is absent, a function, or a value that is not callable.
CallbackKinds == {"null", "function", "object"}

MakeUpdate(id, expirationTime, kind, callback) ==
    LET letter == Letters[id]
    IN [createUpdate(expirationTime) EXCEPT
          !.tag = CASE kind = "replace" -> ReplaceState
                    [] kind = "force" -> ForceUpdate
                    [] kind = "capture" -> CaptureUpdate
                    [] OTHER -> UpdateState,
          !.payload =
              CASE kind \in {"append", "capture"} ->
                     [kind |-> "function", arg |-> letter, obj |-> <<>>,
                      enqueues |-> NoEnqueue]
                [] kind = "set" ->
                     [kind |-> "object", arg |-> "", obj |-> [t |-> letter],
                      enqueues |-> NoEnqueue]
                [] kind = "replace" ->
                     [kind |-> "object", arg |-> "",
                      obj |-> [s |-> <<letter>>, t |-> ""],
                      enqueues |-> NoEnqueue]
                [] kind = "nullfn" ->
                     [kind |-> "function", arg |-> "", obj |-> <<>>,
                      enqueues |-> NoEnqueue]
                [] kind = "throw" ->
                     [kind |-> "function", arg |-> Throw, obj |-> <<>>,
                      enqueues |-> NoEnqueue]
                [] OTHER -> [kind |-> "null", arg |-> "", obj |-> <<>>,
                             enqueues |-> NoEnqueue],
          !.callback = callback]

\* ------------------------------------------------------------------- Init
NoPass == [valid |-> FALSE]

Init ==
    /\ updates = <<>>
    /\ queues = [q \in QueueIds |-> NoQueue]
    /\ LET R == createFiberRoot("container", FALSE, FALSE, FALSE)
       IN /\ root = R.root
          /\ fibers = [f \in FiberIds |->
                         IF f = R.root.current THEN R.fiber ELSE createFiber]
    /\ hasForceUpdate = FALSE
    /\ phase = "idle"
    /\ renderExpirationTime = NoWork
    /\ hist = [lastOp           |-> [name |-> "init"],
               enqueuedBy       |-> <<>>,
               calls            |-> <<>>,
               renderApplied    |-> {},
               committedApplied |-> {},
               appliedOver      |-> {},
               refPass          |-> NoPass,
               conv             |-> [stage |-> "enqueue", levels |-> <<>>,
                                     orig |-> <<>>]]

\* The variables take the fields of the store S.
SetStore(S) ==
    /\ updates' = S.updates
    /\ queues' = Collect(S).queues
    /\ fibers' = S.fibers
    /\ hasForceUpdate' = S.hasForceUpdate

IsFiber(f) == f = CurrentFiber \/ (f = WorkInProgress /\ f # Null)

\* ---------------------------------------------------------------- actions
\* enqueueUpdate(fiber, update) with a new update, on either fiber.
EnqueueUpdateOn(fiber, expirationTime, kind, callback) ==
    /\ phase # "hung"
    /\ IsFiber(fiber)
    /\ LET id == Len(updates) + 1
           S0 == [Store EXCEPT !.updates =
                     Append(@, MakeUpdate(id, expirationTime, kind, callback))]
       IN /\ SetStore(enqueueUpdate(S0, fiber, id))
          /\ hist' = [hist EXCEPT
                        !.lastOp = [name |-> "enqueueUpdate", update |-> id,
                                    fiber |-> fiber,
                                    alternate |-> fibers[fiber].alternate],
                        !.enqueuedBy = Append(@, "enqueueUpdate"),
                        !.calls = Append(@, 0),
                        !.refPass = NoPass]
    /\ UNCHANGED <<root, phase, renderExpirationTime>>

\* The protocol is explored with updater functions that append a letter.
EnqueueUpdate ==
    /\ Len(updates) < MaxUpdates
    /\ \E fiber \in FiberIds, expirationTime \in Times :
          EnqueueUpdateOn(fiber, expirationTime, "append", "null")

\* A render starts, or starts again after the one in progress is abandoned:
\* the work-in-progress fiber is taken again from the current fiber.
RenderStart ==
    /\ phase \in {"idle", "render", "begun"}
    /\ \E time \in Times : renderExpirationTime' = time
    /\ SetStore(createWorkInProgress(Store, CurrentFiber))
    /\ phase' = "render"
    /\ hist' = [hist EXCEPT !.lastOp = [name |-> "createWorkInProgress"],
                            !.renderApplied = {}]
    /\ UNCHANGED root

\* What a pass leaves: the state, the base state and the remaining list.
PassResult(S, workInProgress) ==
    LET q == S.queues[S.fibers[workInProgress].updateQueue]
    IN [memoizedState |-> S.fibers[workInProgress].memoizedState,
        baseState     |-> q.baseState,
        remaining     |-> ListFrom(S.updates, q.firstUpdate,
                                   Len(S.updates) + 1)]

\* The pairs <<s, a>> of records of the normal list of which the pass skipped
\* s and applied a, behind s in the list.
AppliedOver(trace) ==
    {<<trace[i].update, trace[j].update>> :
        <<i, j>> \in {p \in (1..Len(trace)) \X (1..Len(trace)) :
                        /\ p[1] < p[2]
                        /\ ~trace[p[1]].captured /\ ~trace[p[1]].applied
                        /\ ~trace[p[2]].captured /\ trace[p[2]].applied}}

\* processUpdateQueue on the work-in-progress fiber, which has a queue. When
\* a payload throws, the error goes to the caller of processUpdateQueue.
ProcessUpdateQueue ==
    /\ phase \in {"render", "begun"}
    /\ fibers[WorkInProgress].updateQueue # Null
    /\ \E P \in {processUpdateQueue(Store, WorkInProgress,
                    fibers[WorkInProgress].updateQueue, renderExpirationTime)} :
       LET applied == {P.trace[i].update :
                         i \in {j \in 1..Len(P.trace) : P.trace[j].applied}}
           \* the first pass of the render, over the queue of current alone
           first == /\ phase = "render"
                    /\ queues[fibers[WorkInProgress].updateQueue]
                          .firstCapturedUpdate = Null
           restarted == /\ first
                        /\ hist.refPass.valid
                        /\ hist.refPass.time = renderExpirationTime
       IN /\ SetStore(P.S)
          /\ phase' = IF P.diverged THEN "hung" ELSE "begun"
          /\ hist' =
               IF P.threw
               THEN [hist EXCEPT
                        !.lastOp = [name |-> "processUpdateQueue threw",
                                    time |-> renderExpirationTime,
                                    trace |-> P.trace],
                        !.enqueuedBy =
                            @ \o [i \in 1..(Len(P.S.updates) - Len(updates))
                                    |-> "enqueueUpdate"],
                        !.calls =
                            @ \o [i \in 1..(Len(P.S.updates) - Len(updates))
                                    |-> 0]]
               ELSE [hist EXCEPT
                        !.lastOp = [name |-> "processUpdateQueue",
                                    time |-> renderExpirationTime,
                                    trace |-> P.trace,
                                    restarted |-> restarted,
                                    result |-> PassResult(P.S, WorkInProgress)],
                        !.renderApplied = @ \cup applied,
                        !.appliedOver = @ \cup AppliedOver(P.trace),
                        !.enqueuedBy =
                            @ \o [i \in 1..(Len(P.S.updates) - Len(updates))
                                    |-> "enqueueUpdate"],
                        !.calls =
                            @ \o [i \in 1..(Len(P.S.updates) - Len(updates))
                                    |-> 0],
                        !.refPass =
                            IF first /\ ~restarted
                            THEN [valid |-> TRUE,
                                  time |-> renderExpirationTime,
                                  result |-> PassResult(P.S, WorkInProgress)]
                            ELSE @]
    /\ UNCHANGED <<root, renderExpirationTime>>

\* enqueueCapturedUpdate(workInProgress, update) with a new error update: an
\* error is thrown after the fiber was begun, which runs processUpdateQueue
\* when the fiber has a queue.
EnqueueCapturedUpdateOn(expirationTime, callback) ==
    /\ \/ phase = "begun"
       \/ phase = "render" /\ fibers[WorkInProgress].updateQueue = Null
    /\ LET id == Len(updates) + 1
           S0 == [Store EXCEPT !.updates =
                     Append(@, MakeUpdate(id, expirationTime, "capture",
                                          callback))]
       IN /\ SetStore(enqueueCapturedUpdate(S0, WorkInProgress, id))
          /\ hist' = [hist EXCEPT
                        !.lastOp = [name |-> "enqueueCapturedUpdate",
                                    update |-> id],
                        !.enqueuedBy = Append(@, "enqueueCapturedUpdate"),
                        !.calls = Append(@, 0)]
    /\ UNCHANGED <<root, phase, renderExpirationTime>>

EnqueueCapturedUpdate ==
    /\ Len(updates) < MaxUpdates
    /\ \E expirationTime \in Times :
          EnqueueCapturedUpdateOn(expirationTime, "null")

\* The commit of the finished work-in-progress fiber: commitUpdateQueue on
\* its queue, if it has one, with the fiber's stateNode as the instance, and
\* the fiber becomes the root's current fiber.
Commit ==
    /\ phase \in {"render", "begun"}
    /\ LET finishedWork == WorkInProgress
           finishedQueue == fibers[finishedWork].updateQueue
           C == IF finishedQueue = Null
                THEN [S |-> Store, called |-> <<>>, contexts |-> <<>>,
                      end |-> "returned"]
                ELSE commitUpdateQueue(Store, finishedWork, finishedQueue,
                                       fibers[finishedWork].stateNode)
       IN /\ SetStore(C.S)
          /\ root' = IF C.end = "returned"
                     THEN [root EXCEPT !.current = finishedWork] ELSE root
          /\ phase' = IF C.end = "returned" THEN "idle" ELSE "hung"
          /\ hist' = [hist EXCEPT
                        !.lastOp = [name |-> "commit", called |-> C.called,
                                    contexts |-> C.contexts,
                                    applied |-> hist.renderApplied,
                                    end |-> C.end],
                        !.calls = [i \in 1..Len(@) |->
                                     @[i] + Cardinality(
                                       {j \in 1..Len(C.called) :
                                          C.called[j] = i})],
                        !.renderApplied = {},
                        !.committedApplied =
                            IF C.end = "returned"
                            THEN @ \cup hist.renderApplied ELSE @,
                        !.refPass = NoPass]
    /\ renderExpirationTime' = NoWork

Next ==
    \/ EnqueueUpdate
    \/ RenderStart
    \/ ProcessUpdateQueue
    \/ EnqueueCapturedUpdate
    \/ Commit

Spec == Init /\ [][Next]_vars

\* ------------------------------------------------ updates with callbacks
\* The protocol again, every update carrying a callback.
EnqueueUpdateWithCallback ==
    /\ Len(updates) < MaxUpdates
    /\ \E fiber \in FiberIds, expirationTime \in Times :
          EnqueueUpdateOn(fiber, expirationTime, "append", "function")

EnqueueCapturedUpdateWithCallback ==
    /\ Len(updates) < MaxUpdates
    /\ \E expirationTime \in Times :
          EnqueueCapturedUpdateOn(expirationTime, "function")

NextEffects ==
    \/ EnqueueUpdateWithCallback
    \/ RenderStart
    \/ ProcessUpdateQueue
    \/ EnqueueCapturedUpdateWithCallback
    \/ Commit

SpecEffects == Init /\ [][NextEffects]_vars

\* ------------------------------------------------- replay, pass by pass
\* A queue is filled by enqueueUpdate on the one fiber there is; then renders
\* run one after the other, each at an expiration time no earlier render
\* had, each with one processUpdateQueue pass and its commit.
ConvKinds == {"append", "replace"}

ConvEnqueue ==
    /\ hist.conv.stage = "enqueue"
    /\ Len(updates) < MaxConvUpdates
    /\ \E expirationTime \in Times, kind \in ConvKinds :
          EnqueueUpdateOn(CurrentFiber, expirationTime, kind, "null")

ConvRenderStart ==
    /\ phase = "idle"
    /\ Len(updates) > 0
    /\ \E time \in Times \ Range(hist.conv.levels) :
          /\ renderExpirationTime' = time
          /\ hist' = [hist EXCEPT
                        !.lastOp = [name |-> "createWorkInProgress"],
                        !.renderApplied = {},
                        !.conv = [stage |-> "passes",
                                  levels |-> Append(@.levels, time),
                                  orig |-> IF @.stage = "enqueue"
                                           THEN Store ELSE @.orig]]
    /\ SetStore(createWorkInProgress(Store, CurrentFiber))
    /\ phase' = "render"
    /\ UNCHANGED root

ConvProcess ==
    /\ hist.conv.stage = "passes"
    /\ phase = "render"
    /\ ProcessUpdateQueue

ConvCommit ==
    /\ hist.conv.stage = "passes"
    /\ phase = "begun"
    /\ Commit

NextConv ==
    \/ ConvEnqueue
    \/ ConvRenderStart
    \/ ConvProcess
    \/ ConvCommit

SpecConv == Init /\ [][NextConv]_vars

\* ------------------------------------------- passes over every kind of update
\* A queue is filled by enqueueUpdate with updates of every kind, some with a
\* callback that is a function or a value that is not callable; then renders
\* run, each with processUpdateQueue passes, error updates and a commit.
PassTimes == 1..MaxPassTime

PassInputs ==
    {[kind |-> k, callback |-> "null"] :
        k \in {"append", "null", "nullfn", "force"}}
    \cup {[kind |-> "append", callback |-> c] : c \in {"function", "object"}}

PassEnqueue ==
    /\ hist.conv.stage = "enqueue"
    /\ Len(updates) < MaxPassUpdates
    /\ \E expirationTime \in PassTimes, input \in PassInputs :
          EnqueueUpdateOn(CurrentFiber, expirationTime, input.kind,
                          input.callback)

PassRenderStart ==
    /\ phase = "idle"
    /\ Len(updates) > 0
    /\ Len(hist.conv.levels) < MaxPassRenders
    /\ \E time \in PassTimes : renderExpirationTime' = time
    /\ hist' = [hist EXCEPT !.lastOp = [name |-> "createWorkInProgress"],
                            !.renderApplied = {},
                            !.conv.stage = "passes",
                            !.conv.levels = Append(@, NoWork)]
    /\ SetStore(createWorkInProgress(Store, CurrentFiber))
    /\ phase' = "render"
    /\ UNCHANGED root

PassProcess ==
    /\ hist.conv.stage = "passes"
    /\ ProcessUpdateQueue

PassEnqueueCaptured ==
    /\ hist.conv.stage = "passes"
    /\ Len(updates) < MaxPassUpdates
    /\ \E expirationTime \in PassTimes, callback \in {"function", "object"} :
          EnqueueCapturedUpdateOn(expirationTime, callback)

PassCommit ==
    /\ hist.conv.stage = "passes"
    /\ phase = "begun"
    /\ Commit

NextPass ==
    \/ PassEnqueue
    \/ PassRenderStart
    \/ PassProcess
    \/ PassEnqueueCaptured
    \/ PassCommit

SpecPass == Init /\ [][NextPass]_vars

\* ------------------------------------------- payload functions that enqueue
\* A queue is filled with updater functions, some of which call setState on
\* their component when they are called: enqueueUpdate with a new update, on
\* the work-in-progress fiber or on the current fiber.
ReentrantEnqueue ==
    /\ hist.conv.stage = "enqueue"
    /\ Len(updates) < MaxReentrantEnqueued
    /\ \E expirationTime \in Times, time \in Times,
          on \in {"none", "workInProgress", "current"} :
          LET id == Len(updates) + 1
              update == [MakeUpdate(id, expirationTime, "append", "null")
                           EXCEPT !.payload.enqueues =
                                     IF on = "none" THEN NoEnqueue
                                     ELSE [on |-> on, time |-> time]]
          IN /\ on = "none" => time = expirationTime
             /\ SetStore(enqueueUpdate(
                            [Store EXCEPT !.updates = Append(@, update)],
                            CurrentFiber, id))
             /\ hist' = [hist EXCEPT
                           !.lastOp = [name |-> "enqueueUpdate",
                                       update |-> id, fiber |-> CurrentFiber,
                                       alternate |->
                                           fibers[CurrentFiber].alternate],
                           !.enqueuedBy = Append(@, "enqueueUpdate"),
                           !.calls = Append(@, 0),
                           !.refPass = NoPass]
    /\ UNCHANGED <<root, phase, renderExpirationTime>>

ReentrantProcess ==
    /\ hist.conv.stage = "passes"
    /\ ProcessUpdateQueue
    /\ Len(updates') <= MaxReentrantUpdates

NextReentrant ==
    \/ ReentrantEnqueue
    \/ PassRenderStart
    \/ ReentrantProcess
    \/ PassCommit

SpecReentrant == Init /\ [][NextReentrant]_vars

\* --------------------------------------------- payload functions that throw
\* A queue is filled with updater functions, with or without a callback, some
\* of which throw when they are called; then renders run, each with
\* processUpdateQueue passes, error updates and a commit.
ThrowInputs ==
    {[kind |-> k, callback |-> c] :
        k \in {"append", "throw"}, c \in {"null", "function"}}

ThrowEnqueue ==
    /\ hist.conv.stage = "enqueue"
    /\ Len(updates) < MaxThrowEnqueued
    /\ \E expirationTime \in Times, input \in ThrowInputs :
          EnqueueUpdateOn(CurrentFiber, expirationTime, input.kind,
                          input.callback)

ThrowProcess ==
    /\ hist.conv.stage = "passes"
    /\ ProcessUpdateQueue

ThrowEnqueueCaptured ==
    /\ hist.conv.stage = "passes"
    /\ Len(updates) < MaxThrowUpdates
    /\ \E expirationTime \in Times :
          EnqueueCapturedUpdateOn(expirationTime, "null")

NextThrow ==
    \/ ThrowEnqueue
    \/ PassRenderStart
    \/ ThrowProcess
    \/ ThrowEnqueueCaptured
    \/ PassCommit

SpecThrow == Init /\ [][NextThrow]_vars

\* ---------------------------------------------------------- createFiberRoot
\* The arguments of createFiberRoot and the builds it is compiled in.
Containers == {"container", "portal"}
RootArguments ==
    [containerInfo : Containers, isConcurrent : BOOLEAN, hydrate : BOOLEAN,
     enableSchedulerTracing : BOOLEAN]

\* No root yet; the arguments of the next call are chosen.
InitRoot ==
    /\ updates = <<>>
    /\ queues = [q \in QueueIds |-> NoQueue]
    /\ root = Null
    /\ fibers = [f \in FiberIds |-> createFiber]
    /\ hasForceUpdate = FALSE
    /\ phase = "idle"
    /\ renderExpirationTime = NoWork
    /\ \E args \in RootArguments :
          hist = [lastOp |-> [name |-> "init"], args |-> args]

\* The caller takes other arguments for its next call.
ChooseRootArguments ==
    /\ \E args \in RootArguments :
          hist' = [hist EXCEPT !.lastOp = [name |-> "arguments"],
                               !.args = args]
    /\ UNCHANGED <<updates, queues, fibers, root, hasForceUpdate, phase,
                   renderExpirationTime>>

\* createFiberRoot(containerInfo, isConcurrent, hydrate): the root returned
\* and its fiber replace those of the call before.
CreateFiberRoot ==
    /\ LET a == hist.args
           R == createFiberRoot(a.containerInfo, a.isConcurrent, a.hydrate,
                                a.enableSchedulerTracing)
       IN /\ root' = R.root
          /\ fibers' = [fibers EXCEPT ![R.root.current] = R.fiber]
    /\ hist' = [hist EXCEPT !.lastOp = [name |-> "createFiberRoot"]]
    /\ UNCHANGED <<updates, queues, hasForceUpdate, phase,
                   renderExpirationTime>>

NextRoot ==
    \/ ChooseRootArguments
    \/ CreateFiberRoot

SpecRoot == InitRoot /\ [][NextRoot]_vars

\* ------------------------------------------------------------ observations
QueueOf(f) == IF f = Null THEN Null ELSE fibers[f].updateQueue

\* The records added by enqueueUpdate.
EnqueuedUpdates ==
    {i \in 1..Len(updates) : hist.enqueuedBy[i] = "enqueueUpdate"}

\* The records the last pass applied, in the order it applied them.
AppliedOf(trace) ==
    SelectSeq(trace, LAMBDA e : e.applied)

TwoQueues ==
    /\ WorkInProgress # Null
    /\ QueueOf(CurrentFiber) # Null
    /\ QueueOf(WorkInProgress) # Null
    /\ QueueOf(CurrentFiber) # QueueOf(WorkInProgress)

\* ------------------------------------------------------------------ claims

\* C4: no update is dropped: every record added by enqueueUpdate that no
\* committed pass has applied is reachable from firstUpdate of the queue of
\* the current fiber.
C4_NoUpdateDropped ==
    phase # "hung" =>
        \A u \in EnqueuedUpdates \ hist.committedApplied :
            u \in Range(UpdateList(QueueOf(CurrentFiber)))

\* C4 witness: after a commit that left a skipped record, a record enqueued on
\* the work-in-progress fiber is in the current queue behind it.
C4_Witness ==
    /\ phase = "idle"
    /\ hist.committedApplied # {}
    /\ hist.lastOp.name = "enqueueUpdate"
    /\ hist.lastOp.fiber = WorkInProgress
    /\ Len(UpdateList(QueueOf(CurrentFiber))) >= 2

\* C5: enqueueUpdate(fiber, u) on a fiber that has an alternate leaves u
\* reachable from firstUpdate in the queue of the fiber and in the queue of
\* the alternate.
C5_EnqueuedInBothQueues ==
    (hist.lastOp.name = "enqueueUpdate" /\ hist.lastOp.alternate # Null) =>
        /\ hist.lastOp.update
              \in Range(UpdateList(QueueOf(hist.lastOp.fiber)))
        /\ hist.lastOp.update
              \in Range(UpdateList(QueueOf(hist.lastOp.alternate)))

\* C5 witness: the update was enqueued on the work-in-progress fiber while the
\* two fibers had different queue objects whose lists differ.
C5_Witness ==
    /\ hist.lastOp.name = "enqueueUpdate"
    /\ hist.lastOp.fiber = WorkInProgress
    /\ TwoQueues
    /\ UpdateList(QueueOf(CurrentFiber)) # UpdateList(QueueOf(WorkInProgress))

\* C6: in every queue the list reached from firstUpdate is finite and holds
\* no record twice, and a pass applies no record twice.
C6_NoRecordTwice ==
    /\ \A q \in LiveQueues :
          /\ Len(UpdateList(q)) <= Len(updates)
          /\ NoDuplicates(UpdateList(q))
    /\ hist.lastOp.name = "processUpdateQueue" =>
          NoDuplicates([i \in 1..Len(AppliedOf(hist.lastOp.trace)) |->
                          AppliedOf(hist.lastOp.trace)[i].update])

\* C6 witness: a pass over two different queue objects applied two records.
C6_Witness ==
    /\ hist.lastOp.name = "processUpdateQueue"
    /\ TwoQueues
    /\ Len(AppliedOf(hist.lastOp.trace)) >= 2
    /\ Len(UpdateList(QueueOf(CurrentFiber))) >= 2

\* C7: when the two distinct queues have the same non-empty lastUpdate,
\* enqueueUpdate stores the new record once, in the next field of the old
\* shared tail, and lastUpdate of both queues becomes the new record.
C7_SharedTailAppend ==
    [][ \A f \in FiberIds :
          LET a == fibers[f].alternate
              q1 == fibers[f].updateQueue
              q2 == QueueOf(a)
              u == Len(updates) + 1
          IN ( /\ hist'.lastOp.name = "enqueueUpdate"
               /\ hist'.lastOp.fiber = f
               /\ Len(updates') = u
               /\ a # Null /\ q1 # Null /\ q2 # Null /\ q1 # q2
               /\ queues[q1].lastUpdate # Null
               /\ queues[q1].lastUpdate = queues[q2].lastUpdate )
             => /\ updates'[queues[q1].lastUpdate].next = u
                /\ \A i \in 1..Len(updates) :
                      i # queues[q1].lastUpdate =>
                          updates'[i].next = updates[i].next
                /\ updates'[u].next = Null
                /\ fibers'[f].updateQueue = q1
                /\ fibers'[a].updateQueue = q2
                /\ queues'[q1].lastUpdate = u
                /\ queues'[q2].lastUpdate = u
                /\ queues'[q1].firstUpdate = queues[q1].firstUpdate
                /\ queues'[q2].firstUpdate = queues[q2].firstUpdate
      ]_vars

\* C7 witness: after enqueueUpdate the two different queue objects have the
\* new record as lastUpdate, behind an older record that both lists hold.
C7_Witness ==
    /\ hist.lastOp.name = "enqueueUpdate"
    /\ TwoQueues
    /\ queues[QueueOf(CurrentFiber)].lastUpdate = hist.lastOp.update
    /\ queues[QueueOf(WorkInProgress)].lastUpdate = hist.lastOp.update
    /\ queues[QueueOf(CurrentFiber)].firstUpdate # hist.lastOp.update
    /\ queues[QueueOf(WorkInProgress)].firstUpdate # hist.lastOp.update

\* C8: restart safety: the first pass of a render that starts again, at the
\* same expiration time and with no enqueueUpdate or commit since the first
\* pass of the abandoned render, leaves the memoizedState, the baseState and
\* the remaining list that pass left.
C8_RestartSafety ==
    (hist.lastOp.name = "processUpdateQueue" /\ hist.lastOp.restarted) =>
        hist.lastOp.result = hist.refPass.result

\* C8 witness: the render that was abandoned had taken a captured update, and
\* the pass after the restart applied one record and skipped another.
C8_Witness ==
    /\ hist.lastOp.name = "processUpdateQueue"
    /\ hist.lastOp.restarted
    /\ \E i \in 1..Len(updates) :
          hist.enqueuedBy[i] = "enqueueCapturedUpdate"
    /\ \E i, j \in 1..Len(hist.lastOp.trace) :
          hist.lastOp.trace[i].applied /\ ~hist.lastOp.trace[j].applied

\* C10: in a pass, no record of the captured list is applied before a record
\* of the normal list is applied.
C10_CapturedAfterNormal ==
    hist.lastOp.name = "processUpdateQueue" =>
        LET t == hist.lastOp.trace
        IN \A i, j \in 1..Len(t) :
              (t[i].captured /\ t[i].applied /\ ~t[j].captured /\ t[j].applied)
                  => j < i

\* C10 witness: a pass applied a normal record and a captured record of a
\* greater expiration time.
C10_Witness ==
    /\ hist.lastOp.name = "processUpdateQueue"
    /\ LET t == hist.lastOp.trace
       IN \E i, j \in 1..Len(t) :
             /\ t[i].captured /\ t[i].applied
             /\ ~t[j].captured /\ t[j].applied
             /\ updates[t[i].update].expirationTime
                   > updates[t[j].update].expirationTime

\* C3 as stated: a pass skips a record exactly when the record's expiration
\* time is numerically greater than the render's.
C3_SkipsGreater ==
    hist.lastOp.name = "processUpdateQueue" =>
        \A i \in 1..Len(hist.lastOp.trace) :
            LET e == hist.lastOp.trace[i]
            IN ~e.applied <=>
                  updates[e.update].expirationTime > hist.lastOp.time

\* C3 amended: a pass skips a record exactly when the record's expiration
\* time is numerically less than the render's (the greater expiration time
\* is the more urgent), in the normal list and in the captured list.
C3_SkipsLess ==
    hist.lastOp.name = "processUpdateQueue" =>
        \A i \in 1..Len(hist.lastOp.trace) :
            LET e == hist.lastOp.trace[i]
            IN ~e.applied <=>
                  updates[e.update].expirationTime < hist.lastOp.time

\* C3 witness: a pass skipped and applied records of the normal list and
\* visited the captured list.
C3_Witness ==
    /\ hist.lastOp.name = "processUpdateQueue"
    /\ LET t == hist.lastOp.trace
       IN /\ \E i \in 1..Len(t) : ~t[i].captured /\ ~t[i].applied
          /\ \E i \in 1..Len(t) : ~t[i].captured /\ t[i].applied
          /\ \E i \in 1..Len(t) : t[i].captured

\* The expiration times of the records of U, the most urgent (greatest) first.
RECURSIVE SortedDescending(_)
SortedDescending(T) ==
    IF T = {} THEN <<>>
    ELSE LET m == CHOOSE x \in T : \A y \in T : y <= x
         IN <<m>> \o SortedDescending(T \ {m})

LevelsOf(U) == {U[i].expirationTime : i \in 1..Len(U)}

LeastUrgent(U) == CHOOSE x \in LevelsOf(U) : \A y \in LevelsOf(U) : x <= y

\* One processUpdateQueue pass of a new render at `time` from the store S,
\* whose current fiber is fiber 1: the state it computes.
SinglePassState(S, time) ==
    LET S0 == createWorkInProgress(S, 1)
        workInProgress == S0.fibers[1].alternate
    IN processUpdateQueue(S0, workInProgress,
                          S0.fibers[workInProgress].updateQueue, time)
           .S.fibers[workInProgress].memoizedState

\* The renders so far were one per expiration time of the records, from the
\* most urgent to the least urgent, and the last one is committed.
ConvDone ==
    /\ hist.conv.stage = "passes"
    /\ phase = "idle"
    /\ hist.conv.levels = SortedDescending(LevelsOf(updates))

\* C1: convergence: after one pass per expiration time of the records, from
\* the most urgent to the least urgent, each on what the pass before left,
\* memoizedState is what a single pass at the least urgent expiration time
\* computes from the original queue.
C1_Convergence ==
    ConvDone =>
        fibers[CurrentFiber].memoizedState
            = SinglePassState(hist.conv.orig, LeastUrgent(updates))

\* C1 witness: two passes are done over a queue in which a record of the less
\* urgent expiration time comes before a record of the more urgent one.
C1_Witness ==
    /\ ConvDone
    /\ Len(hist.conv.levels) >= 2
    /\ \E i, j \in 1..Len(updates) :
          i < j /\ updates[i].expirationTime < updates[j].expirationTime

\* The queue of four records that append A, B, C, D, with these expiration
\* times.
Scenario(times) ==
    /\ Len(updates) = 4
    /\ \A i \in 1..4 : /\ updates[i].tag = UpdateState
                        /\ updates[i].payload.kind = "function"
                        /\ updates[i].expirationTime = times[i]

\* What the pass just run on the work-in-progress fiber left.
AfterPass(levels) ==
    /\ hist.conv.levels = levels
    /\ phase = "begun"

WorkInProgressQueue == queues[fibers[WorkInProgress].updateQueue]

\* C2 as stated: A1 - B2 - C1 - D2 with the numbers as expiration times; the
\* pass at 1 gives "AC", base state "A" and leaves B, C, D; the pass at 2
\* then gives "ABCD".
C2_LowerNumberFirst ==
    Scenario(<<1, 2, 1, 2>>) =>
        /\ AfterPass(<<1>>) =>
              /\ fibers[WorkInProgress].memoizedState.s = <<"A", "C">>
              /\ WorkInProgressQueue.baseState.s = <<"A">>
              /\ UpdateList(QueueOf(WorkInProgress)) = <<2, 3, 4>>
        /\ AfterPass(<<1, 2>>) =>
              fibers[WorkInProgress].memoizedState.s = <<"A", "B", "C", "D">>

\* C2 amended: the greater expiration time is the more urgent: for
\* A2 - B1 - C2 - D1 the pass at 2 applies A and C and skips B and D, gives
\* "AC", base state "A" and leaves B, C, D; the pass at 1 on that queue
\* applies B, C, D and gives "ABCD".
C2_GreaterNumberFirst ==
    Scenario(<<2, 1, 2, 1>>) =>
        /\ AfterPass(<<2>>) =>
              /\ fibers[WorkInProgress].memoizedState.s = <<"A", "C">>
              /\ WorkInProgressQueue.baseState.s = <<"A">>
              /\ UpdateList(QueueOf(WorkInProgress)) = <<2, 3, 4>>
              /\ hist.lastOp.trace =
                    <<[update |-> 1, captured |-> FALSE, applied |-> TRUE],
                      [update |-> 2, captured |-> FALSE, applied |-> FALSE],
                      [update |-> 3, captured |-> FALSE, applied |-> TRUE],
                      [update |-> 4, captured |-> FALSE, applied |-> FALSE]>>
        /\ AfterPass(<<2, 1>>) =>
              /\ fibers[WorkInProgress].memoizedState.s
                    = <<"A", "B", "C", "D">>
              /\ hist.lastOp.trace =
                    <<[update |-> 2, captured |-> FALSE, applied |-> TRUE],
                      [update |-> 3, captured |-> FALSE, applied |-> TRUE],
                      [update |-> 4, captured |-> FALSE, applied |-> TRUE]>>

\* C2 witness: the second pass over A2 - B1 - C2 - D1 is done.
C2_Witness ==
    /\ Scenario(<<2, 1, 2, 1>>)
    /\ AfterPass(<<2, 1>>)

PassStep ==
    /\ phase \in {"render", "begun"}
    /\ hist'.lastOp.name = "processUpdateQueue"
    /\ phase' # "hung"

\* The queue the pass is called with, and the queue it worked on.
QueueBeforePass == queues[fibers[WorkInProgress].updateQueue]
QueueAfterPass == queues'[fibers'[WorkInProgress].updateQueue]

\* C11: idempotence: processUpdateQueue, at any expiration time, on a queue
\* whose firstUpdate and firstCapturedUpdate are null leaves the base state
\* and every list pointer as they were (in the queue it was called with and
\* in the clone it works on) and makes memoizedState that base state.
C11_Idempotence ==
    [][ ( /\ PassStep
          /\ QueueBeforePass.firstUpdate = Null
          /\ QueueBeforePass.firstCapturedUpdate = Null )
        => /\ QueueAfterPass = QueueBeforePass
           /\ queues'[fibers[WorkInProgress].updateQueue] = QueueBeforePass
           /\ fibers'[WorkInProgress].memoizedState = QueueBeforePass.baseState
           /\ updates' = updates
      ]_vars

\* C11 witness: a pass found nothing to visit in a clone of a queue whose
\* records an earlier render had resolved.
C11_Witness ==
    /\ hist.lastOp.name = "processUpdateQueue"
    /\ hist.lastOp.trace = <<>>
    /\ TwoQueues
    /\ WorkInProgressQueue.baseState # InitialState
    /\ fibers[WorkInProgress].memoizedState = WorkInProgressQueue.baseState

\* The step is the commit of a work-in-progress fiber that has a queue, right
\* after a processUpdateQueue pass on it.
CommitStep ==
    /\ phase \in {"render", "begun"}
    /\ hist.lastOp.name = "processUpdateQueue"
    /\ hist'.lastOp.name = "commit"
    /\ fibers[WorkInProgress].updateQueue # Null

\* The finished queue before the commit, and its lists before and after.
FinishedQueue == fibers[WorkInProgress].updateQueue
FinishedUpdates == UpdateList(FinishedQueue)
FinishedCaptured == CapturedList(FinishedQueue)
CommittedUpdates ==
    ListFrom(updates', queues'[FinishedQueue].firstUpdate, Len(updates') + 1)

\* The place of a record in a list (0: not in the list).
IndexIn(seq, x) ==
    IF x \in Range(seq) THEN CHOOSE i \in 1..Len(seq) : seq[i] = x ELSE 0

\* C12: at commit, the records left in the captured list of the finished
\* queue are not lost, also when its normal list is empty: after
\* commitUpdateQueue the list from firstUpdate is the normal list followed by
\* the captured list.
C12_CapturedJoinedAtCommit ==
    [][ (CommitStep /\ queues[FinishedQueue].firstCapturedUpdate # Null)
        => CommittedUpdates = FinishedUpdates \o FinishedCaptured
      ]_vars

\* C13: a captured record the finished pass applied while a normal record
\* was skipped is, after commitUpdateQueue, in the committed queue behind the
\* skipped records.
C13_AppliedCapturedKept ==
    [][ CommitStep =>
          LET t == hist.lastOp.trace
          IN \A i, j \in 1..Len(t) :
                (t[i].captured /\ t[i].applied
                   /\ ~t[j].captured /\ ~t[j].applied)
                => /\ IndexIn(CommittedUpdates, t[i].update) > 0
                   /\ IndexIn(CommittedUpdates, t[j].update) > 0
                   /\ IndexIn(CommittedUpdates, t[j].update)
                         < IndexIn(CommittedUpdates, t[i].update)
      ]_vars

\* The step is a call of enqueueCapturedUpdate on the work-in-progress fiber
\* while the current fiber has a queue.
CapturedStep ==
    /\ phase \in {"render", "begun"}
    /\ hist'.lastOp.name = "enqueueCapturedUpdate"
    /\ QueueOf(CurrentFiber) # Null

AfterPassOnQueue ==
    /\ hist.lastOp.name = "processUpdateQueue"
    /\ phase = "begun"

\* The pass skipped no record.
NothingSkipped(trace) == \A i \in 1..Len(trace) : trace[i].applied

\* C17: after a pass that skipped no record in either list, baseState is
\* memoizedState and firstUpdate, lastUpdate, firstCapturedUpdate and
\* lastCapturedUpdate are null; after any pass, a list whose head is null has
\* a null tail.
C17_ResolvedQueueIsEmpty ==
    AfterPassOnQueue =>
        LET q == WorkInProgressQueue
        IN /\ NothingSkipped(hist.lastOp.trace) =>
                 /\ q.baseState = fibers[WorkInProgress].memoizedState
                 /\ q.firstUpdate = Null /\ q.lastUpdate = Null
                 /\ q.firstCapturedUpdate = Null
                 /\ q.lastCapturedUpdate = Null
           /\ q.firstUpdate = Null => q.lastUpdate = Null
           /\ q.firstCapturedUpdate = Null => q.lastCapturedUpdate = Null

\* C17 witness: a pass applied a record of each list and skipped none.
C17_Witness ==
    /\ AfterPassOnQueue
    /\ NothingSkipped(hist.lastOp.trace)
    /\ \E i, j \in 1..Len(hist.lastOp.trace) :
          hist.lastOp.trace[i].captured /\ ~hist.lastOp.trace[j].captured
    /\ WorkInProgressQueue.baseState # InitialState

\* The expiration times of the records a pass skipped.
SkippedTimes(trace) ==
    {updates[trace[i].update].expirationTime :
        i \in {j \in 1..Len(trace) : ~trace[j].applied}}

\* The most urgent of a set of expiration times: the one that has sufficient
\* priority for a render at any of the others.
MostUrgent(T) ==
    CHOOSE x \in T : \A y \in T : ~InsufficientPriority(x, y)

\* C15: after processUpdateQueue, workInProgress.expirationTime is the most
\* urgent expiration time among the records skipped in the two lists, and it
\* is NoWork if and only if no record was skipped.
C15_RemainingExpirationTime ==
    AfterPassOnQueue =>
        LET T == SkippedTimes(hist.lastOp.trace)
            remaining == fibers[WorkInProgress].expirationTime
        IN /\ T # {} => remaining = MostUrgent(T)
           /\ remaining = NoWork <=> T = {}

\* C15 witness: a pass skipped two records, the more urgent one first, and a
\* record of the captured list.
C15_Witness ==
    /\ AfterPassOnQueue
    /\ LET t == hist.lastOp.trace
       IN /\ \E i, j \in 1..Len(t) :
                /\ i < j /\ ~t[i].applied /\ ~t[j].applied
                /\ updates[t[i].update].expirationTime
                      > updates[t[j].update].expirationTime
          /\ \E i \in 1..Len(t) : t[i].captured /\ ~t[i].applied

\* The state after the records ids are applied, in order, to state.
RECURSIVE Replay(_, _, _, _)
Replay(S, workInProgress, ids, state) ==
    IF ids = <<>> THEN state
    ELSE Replay(S, workInProgress, Tail(ids),
                getStateFromUpdate(S, workInProgress, Null, Head(ids), state,
                                   "props", "instance").state)

\* The place of the first record a pass skipped (0: none skipped).
FirstSkipped(trace) ==
    IF NothingSkipped(trace) THEN 0
    ELSE CHOOSE k \in 1..Len(trace) :
            ~trace[k].applied /\ \A i \in 1..(k - 1) : trace[i].applied

\* The first record skipped in the normal (captured) list, or Null.
FirstSkippedOf(trace, captured) ==
    LET T == SelectSeq(trace, LAMBDA e : e.captured = captured /\ ~e.applied)
    IN IF T = <<>> THEN Null ELSE T[1].update

\* C16: when a pass skips a record, the new baseState is the state reached
\* by applying, in order, the records before the first skipped record (the
\* normal list, then the captured list), firstUpdate is the first skipped
\* normal record and firstCapturedUpdate the first skipped captured record.
C16_BaseStateAtFirstSkipped ==
    [][ (PassStep /\ ~NothingSkipped(hist'.lastOp.trace)) =>
          LET t == hist'.lastOp.trace
              k == FirstSkipped(t)
              before == [i \in 1..(k - 1) |-> t[i].update]
          IN /\ QueueAfterPass.baseState =
                   Replay(Store, WorkInProgress, before,
                          QueueBeforePass.baseState)
             /\ QueueAfterPass.firstUpdate = FirstSkippedOf(t, FALSE)
             /\ QueueAfterPass.firstCapturedUpdate = FirstSkippedOf(t, TRUE)
      ]_vars

\* C16 witness: a pass applied a normal record, skipped the next and applied
\* a captured record; the base state is the state after the first record.
C16_Witness ==
    /\ AfterPassOnQueue
    /\ LET t == hist.lastOp.trace
       IN /\ Len(t) = 3
          /\ ~t[1].captured /\ t[1].applied
          /\ ~t[2].captured /\ ~t[2].applied
          /\ t[3].captured /\ t[3].applied
    /\ WorkInProgressQueue.baseState # InitialState
    /\ WorkInProgressQueue.baseState # fibers[WorkInProgress].memoizedState
    /\ WorkInProgressQueue.firstUpdate = hist.lastOp.trace[2].update

\* The records a pass applied, in order, without those that satisfy omit.
AppliedWithout(trace, omit(_)) ==
    LET T == SelectSeq(trace, LAMBDA e : e.applied /\ ~omit(e.update))
    IN [i \in 1..Len(T) |-> T[i].update]

\* The record is a merge (UpdateState) whose partial state, the payload or
\* what the payload function returns, is null.
IsNullMerge(u) ==
    /\ updates[u].tag = UpdateState
    /\ \/ updates[u].payload.kind = "null"
       \/ updates[u].payload.kind = "function" /\ updates[u].payload.arg = ""

\* C18: a merge record whose partial state is null leaves the state as it
\* is: the state a pass computes is the state it would compute without those
\* records in the queue.
C18_NullPartialIsNoOp ==
    [][ PassStep =>
          fibers'[WorkInProgress].memoizedState =
              Replay(Store, WorkInProgress,
                     AppliedWithout(hist'.lastOp.trace, IsNullMerge),
                     QueueBeforePass.baseState)
      ]_vars

\* C18 witness: a pass applied a record with a null payload and a record
\* whose payload function returns null, after a record that changed the state.
C18_Witness ==
    /\ AfterPassOnQueue
    /\ LET t == hist.lastOp.trace
       IN \E i, j, k \in 1..Len(t) :
             /\ i < j /\ i < k
             /\ t[i].applied /\ t[j].applied /\ t[k].applied
             /\ ~IsNullMerge(t[i].update)
             /\ updates[t[i].update].tag = UpdateState
             /\ updates[t[j].update].payload.kind = "null"
             /\ updates[t[j].update].tag = UpdateState
             /\ updates[t[k].update].payload.kind = "function"
             /\ IsNullMerge(t[k].update)
    /\ fibers[WorkInProgress].memoizedState # InitialState

IsForce(u) == updates[u].tag = ForceUpdate

\* C19: a ForceUpdate record leaves the state as it is, and after a pass
\* hasForceUpdate is true if and only if the pass applied a ForceUpdate
\* record: the flag an earlier pass set does not survive.
C19_ForceFlagOfThePass ==
    [][ PassStep =>
          LET t == hist'.lastOp.trace
          IN /\ hasForceUpdate' =
                   (\E i \in 1..Len(t) : t[i].applied /\ IsForce(t[i].update))
             /\ fibers'[WorkInProgress].memoizedState =
                   Replay(Store, WorkInProgress, AppliedWithout(t, IsForce),
                          QueueBeforePass.baseState)
      ]_vars

\* C19 witness: the flag is false after a pass that skipped a ForceUpdate
\* record and applied another record, in a render that follows the commit of
\* a pass that had applied a ForceUpdate record.
C19_Witness ==
    /\ AfterPassOnQueue
    /\ ~hasForceUpdate
    /\ \E u \in hist.committedApplied : IsForce(u)
    /\ LET t == hist.lastOp.trace
       IN \E i, j \in 1..Len(t) :
             /\ ~t[i].applied /\ IsForce(t[i].update)
             /\ t[j].applied

\* The step is a call of commitUpdateQueue on the queue of the finished
\* work-in-progress fiber.
CommitQueueStep ==
    /\ phase \in {"render", "begun"}
    /\ hist'.lastOp.name = "commit"
    /\ FinishedQueue # Null

\* The records of the two effect lists of the finished queue, in the order
\* commitUpdateQueue visits them.
FinishedEffects ==
    EffectListFrom(updates, queues[FinishedQueue].firstEffect,
                   Len(updates) + 1)
    \o EffectListFrom(updates, queues[FinishedQueue].firstCapturedEffect,
                      Len(updates) + 1)

\* The callback of the record is present and is not a function.
HasInvalidCallback(u) == updates[u].callback = "object"

\* The place of the first effect record with an invalid callback (0: none, or
\* the walk meets a record twice before it).
FirstInvalid(effects) ==
    LET K == {k \in 1..Len(effects) :
                /\ HasInvalidCallback(effects[k])
                /\ \A i \in 1..(k - 1) : ~HasInvalidCallback(effects[i])
                /\ NoDuplicates(SubSeq(effects, 1, k))}
    IN IF K = {} THEN 0 ELSE CHOOSE k \in K : TRUE

\* C20: when commitUpdateQueue reaches an effect record whose callback is
\* present and not callable, the call ends with the error of callCallback:
\* the callbacks of the records before it were called, those of the records
\* after it are not called and stay on their records, and the caller sees
\* the failure (the fiber is not made current).
C20_InvalidCallbackThrows ==
    [][ (CommitQueueStep /\ FirstInvalid(FinishedEffects) > 0) =>
          LET e == FinishedEffects
              k == FirstInvalid(e)
              before == SubSeq(e, 1, k - 1)
          IN /\ hist'.lastOp.end = "threw"
             /\ hist'.lastOp.called =
                   SelectSeq(before, LAMBDA u : updates[u].callback # "null")
             /\ \A i \in (k + 1)..Len(e) :
                   e[i] \notin Range(SubSeq(e, 1, k)) =>
                      /\ updates'[e[i]].callback = updates[e[i]].callback
                      /\ hist'.calls[e[i]] = hist.calls[e[i]]
             /\ phase' = "hung"
             /\ root' = root
      ]_vars

\* C20 witness: a commit called a callback, then met a callback that is not
\* callable, and left the callback of a later effect record uncalled.
C20_Witness ==
    /\ hist.lastOp.name = "commit"
    /\ hist.lastOp.end = "threw"
    /\ hist.lastOp.called # <<>>
    /\ \E u \in hist.lastOp.applied :
          /\ updates[u].callback = "function"
          /\ hist.calls[u] = 0
          /\ u \notin Range(hist.lastOp.called)

\* The records a pass allocated: those its payload functions enqueued.
NewRecords == (Len(updates) + 1)..Len(updates')

VisitedBy(trace) == {trace[i].update : i \in 1..Len(trace)}

AppliedBy(trace) ==
    {trace[i].update : i \in {j \in 1..Len(trace) : trace[j].applied}}

\* The list of the queue the pass worked on, after the pass.
ListAfterPass ==
    ListFrom(updates', QueueAfterPass.firstUpdate, Len(updates') + 1)

LeftRecordsApplied ==
    \A n \in Range(ListFrom(updates, QueueBeforePass.firstUpdate,
                            Len(updates) + 1)) :
       updates[n].expirationTime >= renderExpirationTime
          => n \in AppliedBy(hist'.lastOp.trace)

C21_LaterPassReached ==
    /\ AfterPassOnQueue
    /\ LET t == hist.lastOp.trace
       IN /\ \E k \in 1..Len(t) :
                t[k].update > MaxReentrantEnqueued /\ t[k].applied
          /\ \A k \in 1..Len(t) :
                t[k].applied
                   => updates[t[k].update].payload.enqueues.on = "none"

EnqueueStep ==
    /\ hist'.lastOp.name = "enqueueUpdate"
    /\ Len(updates') = Len(updates) + 1

EnqueuedOn == hist'.lastOp.fiber
AlternateOfEnqueued == fibers[EnqueuedOn].alternate

\* C22: enqueueUpdate on a fiber with an alternate, when neither has a queue,
\* leaves the two fibers with two distinct queue objects that have the same
\* baseState.
C22_TwoQueuesCreated ==
    [][ ( /\ EnqueueStep
          /\ AlternateOfEnqueued # Null
          /\ fibers[EnqueuedOn].updateQueue = Null
          /\ fibers[AlternateOfEnqueued].updateQueue = Null )
        => LET queue1 == fibers'[EnqueuedOn].updateQueue
               queue2 == fibers'[AlternateOfEnqueued].updateQueue
           IN /\ queue1 # Null
              /\ queue2 # Null
              /\ queue1 # queue2
              /\ queues'[queue1].baseState = queues'[queue2].baseState
      ]_vars

\* C22 witness: the first record of all has been enqueued with enqueueUpdate,
\* so that no fiber had a queue, and each fiber has its own queue now.
C22_Witness ==
    /\ hist.lastOp.name = "enqueueUpdate"
    /\ Len(updates) = 1
    /\ hist.lastOp.alternate # Null
    /\ fibers[hist.lastOp.fiber].updateQueue # Null
    /\ fibers[hist.lastOp.alternate].updateQueue # Null
    /\ fibers[hist.lastOp.fiber].updateQueue
          # fibers[hist.lastOp.alternate].updateQueue
    /\ queues[fibers[hist.lastOp.fiber].updateQueue].firstUpdate = 1
    /\ queues[fibers[hist.lastOp.alternate].updateQueue].firstUpdate = 1

\* The fiber that had the queue before an enqueueUpdate, and the other one.
HadQueue ==
    IF fibers[EnqueuedOn].updateQueue # Null THEN EnqueuedOn
    ELSE AlternateOfEnqueued
HadNoQueue ==
    IF fibers[EnqueuedOn].updateQueue # Null THEN AlternateOfEnqueued
    ELSE EnqueuedOn

\* C23: enqueueUpdate on a fiber with an alternate, when exactly one of the
\* two has a queue, gives the other a new queue object with the baseState,
\* firstUpdate and lastUpdate of the existing queue and with empty captured
\* and effect lists; the captured and effect lists of the existing queue are
\* as they were.
C23_OtherQueueCloned ==
    [][ ( /\ EnqueueStep
          /\ AlternateOfEnqueued # Null
          /\ (fibers[EnqueuedOn].updateQueue = Null)
                 # (fibers[AlternateOfEnqueued].updateQueue = Null) )
        => LET old == fibers[HadQueue].updateQueue
               new == fibers'[HadNoQueue].updateQueue
               before == queues[old]
               existing == queues'[old]
               clone == queues'[new]
           IN /\ fibers'[HadQueue].updateQueue = old
              /\ new # Null
              /\ new # old
              /\ clone.baseState = before.baseState
              /\ clone.baseState = existing.baseState
              /\ clone.firstUpdate = existing.firstUpdate
              /\ clone.lastUpdate = existing.lastUpdate
              /\ before.firstUpdate # Null
                    => clone.firstUpdate = before.firstUpdate
              /\ clone.firstCapturedUpdate = Null
              /\ clone.lastCapturedUpdate = Null
              /\ clone.firstEffect = Null
              /\ clone.lastEffect = Null
              /\ clone.firstCapturedEffect = Null
              /\ clone.lastCapturedEffect = Null
              /\ existing.firstCapturedUpdate = before.firstCapturedUpdate
              /\ existing.lastCapturedUpdate = before.lastCapturedUpdate
              /\ existing.firstEffect = before.firstEffect
              /\ existing.lastEffect = before.lastEffect
              /\ existing.firstCapturedEffect = before.firstCapturedEffect
              /\ existing.lastCapturedEffect = before.lastCapturedEffect
      ]_vars

\* C23 witness: the first record of all was enqueued on the work-in-progress
\* fiber with enqueueCapturedUpdate, which made its queue, and is still in its
\* captured list; the second has been enqueued with enqueueUpdate, which made
\* the queue of the current fiber as a clone.
C23_Witness ==
    /\ hist.lastOp.name = "enqueueUpdate"
    /\ Len(updates) = 2
    /\ hist.enqueuedBy[1] = "enqueueCapturedUpdate"
    /\ TwoQueues
    /\ LET q == queues[QueueOf(WorkInProgress)]
           other == queues[QueueOf(CurrentFiber)]
       IN /\ q.firstCapturedUpdate = 1
          /\ q.firstUpdate = 2
          /\ q.lastUpdate = 2
          /\ other.firstCapturedUpdate = Null
          /\ other.firstUpdate = 2

\* The two effect lists of a queue record q, as the walk from the first
\* pointer finds them (a walk that does not end is cut).
EffectsOf(U, q) == EffectListFrom(U, q.firstEffect, Len(U) + 1)
CapturedEffectsOf(U, q) == EffectListFrom(U, q.firstCapturedEffect, Len(U) + 1)

WithCallback(U, seq) == SelectSeq(seq, LAMBDA u : U[u].callback # "null")

\* The records with a callback that a pass applied from the normal list, or
\* from the captured list, in the order it applied them.
AppliedWithCallback(trace, captured) ==
    LET sel == SelectSeq(trace,
                 LAMBDA e : /\ e.applied
                            /\ e.captured = captured
                            /\ updates[e.update].callback # "null")
    IN [i \in 1..Len(sel) |-> sel[i].update]

\* The effect lists the pass starts from: those of the queue it is called
\* with, or none when that queue is the current queue, which it clones.
EffectsBeforePass ==
    IF fibers[WorkInProgress].updateQueue = fibers[CurrentFiber].updateQueue
    THEN <<>> ELSE EffectsOf(updates, QueueBeforePass)
CapturedEffectsBeforePass ==
    IF fibers[WorkInProgress].updateQueue = fibers[CurrentFiber].updateQueue
    THEN <<>> ELSE CapturedEffectsOf(updates, QueueBeforePass)

\* A pass puts the records it applies, those with a callback, at the end of
\* the effect list of their kind, in the order it applies them.
EffectsInAppliedOrder ==
    /\ EffectsOf(updates', QueueAfterPass) =
          EffectsBeforePass \o AppliedWithCallback(hist'.lastOp.trace, FALSE)
    /\ CapturedEffectsOf(updates', QueueAfterPass) =
          CapturedEffectsBeforePass
             \o AppliedWithCallback(hist'.lastOp.trace, TRUE)

\* commitUpdateQueue calls the callbacks of the normal effect list in order,
\* then those of the captured effect list, each with the instance as context
\* and cleared from its record, and returns with the four pointers null.
EffectsDrained ==
    LET q == queues[FinishedQueue]
        effects == EffectsOf(updates, q) \o CapturedEffectsOf(updates, q)
        called == hist'.lastOp.called
    IN /\ hist'.lastOp.end = "returned"
       /\ called = WithCallback(updates, effects)
       /\ hist'.lastOp.contexts =
             [i \in 1..Len(called) |-> fibers[WorkInProgress].stateNode]
       /\ \A i \in 1..Len(called) : updates'[called[i]].callback = "null"
       /\ queues'[FinishedQueue].firstEffect = Null
       /\ queues'[FinishedQueue].lastEffect = Null
       /\ queues'[FinishedQueue].firstCapturedEffect = Null
       /\ queues'[FinishedQueue].lastCapturedEffect = Null

\* C24: the effect lists hold the records with a callback in the order the
\* passes applied them, and commitUpdateQueue calls the callbacks of the
\* normal effect list in that order, then those of the captured effect list,
\* each with the finished instance as context and cleared from its record;
\* it returns with firstEffect, lastEffect, firstCapturedEffect and
\* lastCapturedEffect null.
C24_EffectsDrainedInOrder ==
    [][ /\ PassStep => EffectsInAppliedOrder
        /\ CommitQueueStep => EffectsDrained
      ]_vars

\* The same when no record is twice in an effect list: what the code does
\* for the effect lists of a render that ran one pass.
EffectsDrainedWhenListsAreFinite ==
    [][ /\ ( /\ PassStep
             /\ NoDuplicates(EffectsBeforePass
                   \o AppliedWithCallback(hist'.lastOp.trace, FALSE))
             /\ NoDuplicates(CapturedEffectsBeforePass
                   \o AppliedWithCallback(hist'.lastOp.trace, TRUE)) )
           => EffectsInAppliedOrder
        /\ ( /\ CommitQueueStep
             /\ NoDuplicates(EffectsOf(updates, queues[FinishedQueue]))
             /\ NoDuplicates(CapturedEffectsOf(updates,
                                               queues[FinishedQueue])) )
           => EffectsDrained
      ]_vars

\* The normal list of the queue of fiber f before the step (empty: no queue)
\* and after it.
ListBefore(f) == UpdateList(fibers[f].updateQueue)
ListAfter(f) ==
    IF fibers'[f].updateQueue = Null THEN <<>>
    ELSE ListFrom(updates', queues'[fibers'[f].updateQueue].firstUpdate,
                  Len(updates') + 1)

\* C25: enqueueUpdate only appends: for the queue of the fiber and for the
\* queue of its alternate, the list from firstUpdate after the call is the
\* list before the call followed by the new record.
C25_AppendOnly ==
    [][ EnqueueStep =>
          \A f \in {EnqueuedOn, AlternateOfEnqueued} \ {Null} :
             ListAfter(f) = Append(ListBefore(f), Len(updates'))
      ]_vars

\* The queues of the two fibers are one object, or one of them is missing
\* or empty, or their lastUpdate pointers are the same record.
TailsShared(f, g) ==
    LET queue1 == fibers[f].updateQueue
        queue2 == IF g = Null THEN Null ELSE fibers[g].updateQueue
    IN \/ queue1 = Null
       \/ queue2 = Null
       \/ queue1 = queue2
       \/ queues[queue1].lastUpdate = Null
       \/ queues[queue2].lastUpdate = Null
       \/ queues[queue1].lastUpdate = queues[queue2].lastUpdate

\* The same for a call that finds the lastUpdate pointers of the two queues
\* on the same record.
AppendOnlyWhenTailsShared ==
    [][ (EnqueueStep /\ TailsShared(EnqueuedOn, AlternateOfEnqueued)) =>
          \A f \in {EnqueuedOn, AlternateOfEnqueued} \ {Null} :
             ListAfter(f) = Append(ListBefore(f), Len(updates'))
      ]_vars

\* The records of the normal list a pass visited, in order, and those of
\* them it applied.
NormalVisited(trace) ==
    LET T == SelectSeq(trace, LAMBDA e : ~e.captured)
    IN [i \in 1..Len(T) |-> T[i].update]

\* C26: after a pass that skips a record of the normal list, the list from
\* firstUpdate is the list the pass visited from the first skipped record on,
\* in the same order, the records the pass applied included; and a pass that
\* applies a record that an earlier pass skipped also applies, after it, every
\* record that the earlier pass applied behind it in the list, the state of
\* the fiber being the base state with the applied records applied in order.
C26_RecordsAfterSkippedStay ==
    [][ PassStep =>
          LET t == hist'.lastOp.trace
              n == NormalVisited(t)
              first == FirstSkippedOf(t, FALSE)
              applied == AppliedBy(t)
          IN /\ first # Null =>
                   ListAfterPass = SubSeq(n, IndexIn(n, first), Len(n))
             /\ \A p \in hist.appliedOver :
                   (p[1] \in Range(n) /\ p[1] \in applied)
                   => /\ p[2] \in applied
                      /\ IndexIn(n, p[1]) < IndexIn(n, p[2])
             /\ fibers'[WorkInProgress].memoizedState =
                   Replay(Store, WorkInProgress, AppliedWithout(t, LAMBDA u : FALSE),
                          QueueBeforePass.baseState)
      ]_vars

\* C26 witness: a pass has applied a record that an earlier pass skipped and,
\* on top of it, a record that the earlier pass applied behind it.
C26_Witness ==
    /\ AfterPassOnQueue
    /\ LET t == hist.lastOp.trace
       IN \E i, j \in 1..Len(t) :
             /\ i < j
             /\ ~t[i].captured /\ t[i].applied
             /\ ~t[j].captured /\ t[j].applied
             /\ <<t[i].update, t[j].update>> \in hist.appliedOver
             /\ fibers[WorkInProgress].memoizedState.s =
                   <<Letters[t[i].update], Letters[t[j].update]>>

\* C27: tail sharing: whenever a fiber and its alternate have distinct queue
\* objects whose lastUpdate is not null, the two lastUpdate pointers are the
\* same record.
C27_TailSharing ==
    \A f \in FiberIds :
       LET g == fibers[f].alternate
       IN (g # Null
             /\ fibers[f].updateQueue # Null
             /\ fibers[g].updateQueue # Null
             /\ fibers[f].updateQueue # fibers[g].updateQueue
             /\ queues[fibers[f].updateQueue].lastUpdate # Null
             /\ queues[fibers[g].updateQueue].lastUpdate # Null)
          => queues[fibers[f].updateQueue].lastUpdate
                = queues[fibers[g].updateQueue].lastUpdate

\* The same in the states where commitUpdateQueue has not yet joined a
\* captured list to a normal list: the tails part at the join, when the
\* captured list is not empty and lastUpdate is not null.
TailSharingBeforeAJoin ==
    [][ ( /\ C27_TailSharing
          /\ ~( /\ CommitQueueStep
                /\ queues[FinishedQueue].firstCapturedUpdate # Null
                /\ queues[FinishedQueue].lastUpdate # Null ) )
        => C27_TailSharing'
      ]_vars

\* The firstUpdate of the queue of fiber w is null or a record of the list
\* of the queue of fiber c.
PositionNotBefore(w, c) ==
    \/ queues[fibers[w].updateQueue].firstUpdate = Null
    \/ queues[fibers[w].updateQueue].firstUpdate
          \in Range(UpdateList(fibers[c].updateQueue))

BothHaveAQueue ==
    /\ WorkInProgress # Null
    /\ QueueOf(CurrentFiber) # Null
    /\ QueueOf(WorkInProgress) # Null

\* C28: in every state where the current fiber and its alternate both have a
\* queue, firstUpdate of the alternate's queue is null or a record reachable
\* from firstUpdate of the current queue.
C28_WorkInProgressNotBehind ==
    BothHaveAQueue => PositionNotBefore(WorkInProgress, CurrentFiber)

\* C28 during a render: the alternate is the work-in-progress fiber from
\* createWorkInProgress until the commit.
C28_NotBehindDuringARender ==
    (BothHaveAQueue /\ phase \in {"render", "begun"})
       => PositionNotBefore(WorkInProgress, CurrentFiber)

\* C28 witness: in a render, the work-in-progress queue is a clone whose
\* firstUpdate is a later record of the list of the current queue.
C28_Witness ==
    /\ phase = "begun"
    /\ TwoQueues
    /\ LET l == UpdateList(QueueOf(CurrentFiber))
           first == queues[QueueOf(WorkInProgress)].firstUpdate
       IN /\ first # Null
          /\ IndexIn(l, first) > 1
          /\ Len(l) > IndexIn(l, first)

\* C29: a pass leaves the queue of the current fiber as it was, field by
\* field; when it is called with the queue of the current fiber, the
\* work-in-progress fiber has another queue object after it.
C29_CurrentQueueUnchanged ==
    [][ (PassStep /\ QueueOf(CurrentFiber) # Null) =>
          LET currentQueue == fibers[CurrentFiber].updateQueue
          IN /\ fibers'[CurrentFiber].updateQueue = currentQueue
             /\ queues'[currentQueue] = queues[currentQueue]
             /\ fibers[WorkInProgress].updateQueue = currentQueue
                   => /\ fibers'[WorkInProgress].updateQueue # Null
                      /\ fibers'[WorkInProgress].updateQueue # currentQueue
      ]_vars

\* C29 witness: the first pass of a render that started again was called
\* with the queue of the current fiber and applied its first record: the
\* current queue still starts at that record, the work-in-progress queue is
\* another object with another base state.
C29_Witness ==
    /\ AfterPassOnQueue
    /\ hist.lastOp.restarted
    /\ TwoQueues
    /\ LET t == hist.lastOp.trace
           q == queues[QueueOf(CurrentFiber)]
       IN /\ t # <<>>
          /\ t[1].applied
          /\ q.firstUpdate = t[1].update
          /\ WorkInProgressQueue.firstUpdate # q.firstUpdate
          /\ WorkInProgressQueue.baseState # q.baseState

\* C30: the root that createFiberRoot returns has NoWork in its eight time
\* fields, no finishedWork and didError false, and the stateNode of
\* root.current is the root, with scheduler tracing and without it.
C30_FreshRoot ==
    hist.lastOp.name = "createFiberRoot" =>
        /\ root.earliestPendingTime = NoWork
        /\ root.latestPendingTime = NoWork
        /\ root.earliestSuspendedTime = NoWork
        /\ root.latestSuspendedTime = NoWork
        /\ root.latestPingedTime = NoWork
        /\ root.pendingCommitExpirationTime = NoWork
        /\ root.nextExpirationTimeToWorkOn = NoWork
        /\ root.expirationTime = NoWork
        /\ root.finishedWork = Null
        /\ root.didError = FALSE
        /\ fibers[root.current].stateNode = RootId
        /\ root.containerInfo = hist.args.containerInfo
        /\ root.hydrate = hist.args.hydrate
        /\ ("interactionThreadID" \in DOMAIN root)
              <=> hist.args.enableSchedulerTracing

\* C30 witness: createFiberRoot has returned a root in a build with scheduler
\* tracing, for a concurrent, hydrating tree.
C30_Witness ==
    /\ hist.lastOp.name = "createFiberRoot"
    /\ hist.args.enableSchedulerTracing
    /\ hist.args.isConcurrent
    /\ hist.args.hydrate
    /\ root.memoizedInteractions = {}
    /\ root.current = 1

\* C31: in every state, the effect list and the captured effect list of
\* every queue, walked from firstEffect and firstCapturedEffect along
\* nextEffect, end and hold no record twice, also after two or more passes on
\* the same work-in-progress queue with no commit or reset between them; and
\* commitUpdateQueue returns (or throws) and does not walk for ever.
C31_EffectListsFinite ==
    /\ \A q \in LiveQueues :
          /\ NoDuplicates(EffectsOf(updates, queues[q]))
          /\ NoDuplicates(CapturedEffectsOf(updates, queues[q]))
    /\ hist.lastOp.name = "commit" => hist.lastOp.end # "diverged"

\* The effect lists end and hold no record twice after the first pass of a
\* render, which starts from the empty effect lists of a clone.
EffectListsFiniteAfterTheFirstPass ==
    [][ (PassStep /\ EffectsBeforePass = <<>>
                  /\ CapturedEffectsBeforePass = <<>>)
        => /\ NoDuplicates(EffectsOf(updates', QueueAfterPass))
           /\ NoDuplicates(CapturedEffectsOf(updates', QueueAfterPass))
      ]_vars

\* A call of processUpdateQueue in which a payload function threw.
ThrowStep ==
    /\ phase \in {"render", "begun"}
    /\ hist'.lastOp.name = "processUpdateQueue threw"

\* C32: when a payload function throws during processUpdateQueue, the call
\* ends with the error, and baseState, firstUpdate, lastUpdate,
\* firstCapturedUpdate and lastCapturedUpdate of the queue of the
\* work-in-progress fiber, and memoizedState and expirationTime of the fiber,
\* are what they were before the call; the two lists hold the records they
\* held, and processUpdateQueue can be called again.
C32_ThrowLeavesQueueAsItWas ==
    [][ ThrowStep =>
          LET before == QueueBeforePass
              after == QueueAfterPass
          IN /\ after.baseState = before.baseState
             /\ after.firstUpdate = before.firstUpdate
             /\ after.lastUpdate = before.lastUpdate
             /\ after.firstCapturedUpdate = before.firstCapturedUpdate
             /\ after.lastCapturedUpdate = before.lastCapturedUpdate
             /\ fibers'[WorkInProgress].memoizedState =
                   fibers[WorkInProgress].memoizedState
             /\ fibers'[WorkInProgress].expirationTime =
                   fibers[WorkInProgress].expirationTime
             /\ ListAfterPass = UpdateList(fibers[WorkInProgress].updateQueue)
             /\ ListFrom(updates', after.firstCapturedUpdate, Len(updates') + 1)
                   = ListFrom(updates, before.firstCapturedUpdate,
                              Len(updates) + 1)
             /\ phase' \in {"render", "begun"}
             /\ fibers'[WorkInProgress].updateQueue # Null
      ]_vars

\* C32 witness: a payload function has thrown in a pass that had applied a
\* record before it, on a fiber whose state is not what that record makes
\* it; the throwing record is still in the list.
C32_Witness ==
    /\ hist.lastOp.name = "processUpdateQueue threw"
    /\ \E i \in 1..Len(hist.lastOp.trace) : hist.lastOp.trace[i].applied
    /\ \E u \in Range(UpdateList(fibers[WorkInProgress].updateQueue)) :
          PayloadThrows(updates[u].payload)
    /\ fibers[WorkInProgress].memoizedState.s = <<>>

\* The first and last pointers of a list agree: both are null, or the last
\* record is in the list from the first and is its end.
HeadTailConsistent(U, first, last) ==
    /\ first = Null <=> last = Null
    /\ first # Null =>
          LET list == ListFrom(U, first, Len(U) + 1)
          IN /\ last \in Range(list)
             /\ U[last].next = Null
             /\ list[Len(list)] = last

\* C33: head/tail consistency: in every state and for every queue,
\* firstUpdate is null if and only if lastUpdate is null, and when they are
\* not null lastUpdate is in the list from firstUpdate and is its last record,
\* whose next is null; the same for firstCapturedUpdate and
\* lastCapturedUpdate.
C33_HeadTailConsistency ==
    \A q \in LiveQueues :
       /\ HeadTailConsistent(updates, queues[q].firstUpdate,
                             queues[q].lastUpdate)
       /\ HeadTailConsistent(updates, queues[q].firstCapturedUpdate,
                             queues[q].lastCapturedUpdate)

\* Every step keeps the head and the tail of every list consistent, except
\* the step in which commitUpdateQueue joins a captured list to a normal list
\* that is not empty: the queue of the other fiber keeps its lastUpdate on a
\* record that is no longer the end of its list.
HeadTailConsistencyBeforeAJoin ==
    [][ ( /\ C33_HeadTailConsistency
          /\ ~( /\ CommitQueueStep
                /\ queues[FinishedQueue].firstCapturedUpdate # Null
                /\ queues[FinishedQueue].lastUpdate # Null ) )
        => C33_HeadTailConsistency'
      ]_vars

====
